---- MODULE Spec2Model ----
(***************************************************************************)
(* Remote-skill dispatch engine of the codex-manager Python client          *)
(* (packages/python-client/src/codex_manager/remote_skills.py).             *)
(*                                                                          *)
(* One RemoteSkillSession bound to a live session id and its _SkillRegistry *)
(* are modelled.  The sync session runs one call at a time: every public   *)
(* operation is one action that runs the whole call, followed by a Return   *)
(* step in which the caller takes its result.  The remote side (what        *)
(* tool_calls.respond, sessions.tool_calls, sessions.send_message and       *)
(* sessions.get answer), the clock and the handler's behaviour are inputs   *)
(* chosen by the environment.                                               *)
(*                                                                          *)
(* SpecFacade is a second state machine, of RemoteSkillsFacade: its map of  *)
(* registries, the draft registry of create_session, and the calls made     *)
(* through the bound and draft sessions it hands out.                       *)
(*                                                                          *)
(* Further state machines, each with its own specification: SpecSend       *)
(* follows send_and_handle with the steps it takes recorded in order;      *)
(* SpecWait follows WaitApi.until and WaitApi.assistant_reply (wait.py)    *)
(* poll by poll; SpecBoth gives every operation to a RemoteSkillSession    *)
(* and to an AsyncRemoteSkillSession side by side; SpecStream follows      *)
(* AsyncEventStream.run_forever (stream.py) from await to await, with      *)
(* stop_event and task cancellation as inputs; SpecSchema applies the      *)
(* input-schema enrichment of register to handlers and schemas;            *)
(* SpecRouter follows EventRouter.dispatch (stream.py) route by route;     *)
(* SpecTasks runs two tasks of one event loop on one                       *)
(* AsyncRemoteSkillSession, interleaved at the awaits that suspend;        *)
(* SpecClose is the facade used by a caller that keeps the handle of a     *)
(* session it closes.                                                      *)
(*                                                                          *)
(* Python values are tagged records: None, StrVal(<<atoms>>), IntVal(n), Other.   *)
(* A string is a sequence of atoms, the atom " " being whitespace, so that  *)
(* str.strip() and str(int) are computed rather than assumed.               *)
(*                                                                          *)
(* Not modelled: the arguments/callId/result fields of a Dispatch and the   *)
(* text of contentItems (only the envelope's success flag), the message     *)
(* field of a submit response (it only changes the error text), and the     *)
(* retry sleeps (they are suspension points in SpecTasks only).             *)
(***************************************************************************)
EXTENDS Integers, Sequences, FiniteSets, TLC

VARIABLES registry, last, prev, acked, facade, wait, twin, stream, skill, router, tasks

vars == <<registry, last, prev, acked, facade, wait, twin, stream, skill, router, tasks>>

-----------------------------------------------------------------------------
(* Bounds of the model *)

\* longest listing returned by sessions.tool_calls in one drain
MaxRows == 2

\* longest timeout_seconds of a send_and_handle, in ticks
MaxTimeout == 1

\* most calls a create_session register callback makes on the draft session
MaxCallbackOps == 2

\* longest timeout_seconds of a WaitApi call, in ticks
MaxWait == 3

-----------------------------------------------------------------------------
(* Program constants *)

_DEFAULT_RESPONSE_SUBMIT_ATTEMPTS == 3

_MAX_HANDLED_REQUEST_IDS == 4096

_DISPATCH_MODE_SIGNAL == "signal"

_DISPATCH_MODE_POLLING == "polling"

\* registry.dispatch_mode = None
NoDispatchMode == "None"

TOOL_CALL_EVENT == "app_server.request.item.tool.call"

-----------------------------------------------------------------------------
(* Python values *)

None == [t |-> "none"]

StrVal(s) == [t |-> "str", v |-> s]

IntVal(n) == [t |-> "int", v |-> n]

\* a value that is neither None, a str, an int nor a dict
Other == [t |-> "other"]

RECURSIVE lstrip(_)
lstrip(s) == IF s # <<>> /\ Head(s) = " " THEN lstrip(Tail(s)) ELSE s

RECURSIVE rstrip(_)
rstrip(s) == IF s # <<>> /\ s[Len(s)] = " " THEN rstrip(SubSeq(s, 1, Len(s) - 1)) ELSE s

strip(s) == rstrip(lstrip(s))

Digits == <<"0", "1", "2", "3", "4", "5", "6", "7", "8", "9">>

\* str(n) for n >= 0
RECURSIVE str_int(_)
str_int(n) == IF n < 10 THEN <<Digits[n + 1]>> ELSE str_int(n \div 10) \o <<Digits[(n % 10) + 1]>>

_as_non_empty_string(value) ==
    IF value.t = "str"
    THEN LET normalized == strip(value.v)
         IN  IF normalized # <<>> THEN StrVal(normalized) ELSE None
    ELSE None

\* mutant: a string is taken as it is
_to_request_id_string_BlankKept(value) ==
    IF value.t = "int" THEN StrVal(str_int(value.v))
    ELSE IF value.t = "str" THEN value
    ELSE None

_to_request_id_string(value) ==
    IF value.t = "int" THEN StrVal(str_int(value.v)) ELSE _as_non_empty_string(value)

\* a dict; only the keys the engine reads are kept
Dict(status, code) == [t |-> "dict", status |-> status, code |-> code]

-----------------------------------------------------------------------------
(* Indications *)

\* AppServerSignal: event_type, params["tool"], request_id, session["id"],
\* context["threadId"]
Signal(event_type, tool, request_id, session_id, thread_id) ==
    [event_type |-> event_type, tool |-> tool, request_id |-> request_id,
     session_id |-> session_id, thread_id |-> thread_id]

\* one row of the sessions.tool_calls listing
PendingCall(request_id, tool, thread_id) ==
    [t |-> "dict", requestId |-> request_id, tool |-> tool, threadId |-> thread_id]

\* mutant: the event type is not looked at
_parse_tool_call_signal_AnyEvent(signal) ==
    IF signal.tool.t # "str" THEN None
    ELSE IF strip(signal.tool.v) = <<>> THEN None
    ELSE StrVal(strip(signal.tool.v))

\* tool of the signal, or None when the signal is not a tool call
_parse_tool_call_signal(signal) ==
    IF signal.event_type # TOOL_CALL_EVENT THEN None
    ELSE IF signal.tool.t # "str" THEN None
    ELSE IF strip(signal.tool.v) = <<>> THEN None
    ELSE StrVal(strip(signal.tool.v))

\* (request_id, tool) of a listed row
_parse_pending_tool_call(record) ==
    IF record.t # "dict" THEN [request_id |-> None, tool |-> None]
    ELSE LET request_id == IF record.requestId.t \in {"str", "int"} THEN record.requestId ELSE None
         IN  IF record.tool.t # "str" THEN [request_id |-> request_id, tool |-> None]
             ELSE IF strip(record.tool.v) = <<>> THEN [request_id |-> request_id, tool |-> None]
             ELSE [request_id |-> request_id, tool |-> StrVal(strip(record.tool.v))]

_signal_session_id(signal) ==
    LET session_id == _as_non_empty_string(signal.session_id)
    IN  IF session_id # None THEN session_id ELSE _as_non_empty_string(signal.thread_id)

_pending_call_session_id(record) ==
    IF record.t # "dict" THEN None ELSE _as_non_empty_string(record.threadId)

\* mutant: only session["id"] is compared, context["threadId"] is not
matches_signal_SessionOnly(session_id, signal) ==
    LET signal_session_id == _as_non_empty_string(signal.session_id)
    IN  signal_session_id = None \/ signal_session_id = StrVal(session_id)

matches_signal(session_id, signal) ==
    LET signal_session_id == _signal_session_id(signal)
    IN  signal_session_id = None \/ signal_session_id = StrVal(session_id)

-----------------------------------------------------------------------------
(* _SkillRegistry *)

\* handled_request_ids is a set of strings.  The ids the model delivers are
\* kept as a set (ids); every other id the set holds is only counted
\* (others), since such ids are never delivered again.
HandledLen(handled) == Cardinality(handled.ids) + handled.others

\* set.pop(): an arbitrary element leaves the set
SetPop(handled) ==
    {[handled EXCEPT !.ids = @ \ {x}] : x \in handled.ids}
        \cup (IF handled.others > 0 THEN {[handled EXCEPT !.others = @ - 1]} ELSE {})

\* while len(handled_request_ids) >= _MAX_HANDLED_REQUEST_IDS: pop()
RECURSIVE TrimHandled(_)
TrimHandled(handled) ==
    IF HandledLen(handled) >= _MAX_HANDLED_REQUEST_IDS
    THEN UNION {TrimHandled(h) : h \in SetPop(handled)}
    ELSE {handled}

\* mutant: on overflow the whole cache is cleared before the id is added
_remember_handled_request_ClearAll(handled, request_id) ==
    LET added == [handled EXCEPT !.ids = @ \cup {request_id}]
    IN  IF HandledLen(added) > _MAX_HANDLED_REQUEST_IDS
        THEN {[ids |-> {request_id}, others |-> 0]}
        ELSE {added}

\* mutant: on overflow the id is not put back after the trim
_remember_handled_request_NoReinsert(handled, request_id) ==
    LET added == [handled EXCEPT !.ids = @ \cup {request_id}]
    IN  IF HandledLen(added) > _MAX_HANDLED_REQUEST_IDS
        THEN TrimHandled([added EXCEPT !.ids = @ \ {request_id}])
        ELSE {added}

\* the caches that can result from remembering request_id
_remember_handled_request(handled, request_id) ==
    LET added == [handled EXCEPT !.ids = @ \cup {request_id}]
    IN  IF HandledLen(added) > _MAX_HANDLED_REQUEST_IDS
        THEN {[h EXCEPT !.ids = @ \cup {request_id}] :
                 h \in TrimHandled([added EXCEPT !.ids = @ \ {request_id}])}
        ELSE {added}

\* mutant: a locked catalog may be changed
_require_catalog_mutation_allowed_Never(reg) == "None"

_require_catalog_mutation_allowed(reg) ==
    IF reg.catalog_locked THEN "create_time_only" ELSE "None"

\* mutant: a different mode is not an error
_require_dispatch_mode_NoConflict(current, mode) ==
    IF mode \notin {_DISPATCH_MODE_SIGNAL, _DISPATCH_MODE_POLLING}
    THEN [dispatch_mode |-> current, raised |-> "unsupported_dispatch_mode"]
    ELSE IF current = NoDispatchMode
    THEN [dispatch_mode |-> mode, raised |-> "None"]
    ELSE [dispatch_mode |-> current, raised |-> "None"]

\* mutant: the mode is set whenever it differs
_require_dispatch_mode_Overwrite(current, mode) ==
    IF mode \notin {_DISPATCH_MODE_SIGNAL, _DISPATCH_MODE_POLLING}
    THEN [dispatch_mode |-> current, raised |-> "unsupported_dispatch_mode"]
    ELSE IF current # mode
    THEN [dispatch_mode |-> mode, raised |-> "None"]
    ELSE [dispatch_mode |-> current, raised |-> "None"]

\* mutant: polling takes a registry over from the signal channel
_require_dispatch_mode_PollingTakesOver(current, mode) ==
    IF mode \notin {_DISPATCH_MODE_SIGNAL, _DISPATCH_MODE_POLLING}
    THEN [dispatch_mode |-> current, raised |-> "unsupported_dispatch_mode"]
    ELSE IF current = NoDispatchMode \/ mode = _DISPATCH_MODE_POLLING
    THEN [dispatch_mode |-> mode, raised |-> "None"]
    ELSE IF current # mode
    THEN [dispatch_mode |-> current, raised |-> "dispatch_mode_conflict"]
    ELSE [dispatch_mode |-> current, raised |-> "None"]

\* mutant: the mode is checked and not set
_require_dispatch_mode_CheckOnly(current, mode) ==
    IF mode \notin {_DISPATCH_MODE_SIGNAL, _DISPATCH_MODE_POLLING}
    THEN [dispatch_mode |-> current, raised |-> "unsupported_dispatch_mode"]
    ELSE IF current = NoDispatchMode
    THEN [dispatch_mode |-> current, raised |-> "None"]
    ELSE IF current # mode
    THEN [dispatch_mode |-> current, raised |-> "dispatch_mode_conflict"]
    ELSE [dispatch_mode |-> current, raised |-> "None"]

\* the mode after the call and the error it raises ("None" when it returns)
_require_dispatch_mode(current, mode) ==
    IF mode \notin {_DISPATCH_MODE_SIGNAL, _DISPATCH_MODE_POLLING}
    THEN [dispatch_mode |-> current, raised |-> "unsupported_dispatch_mode"]
    ELSE IF current = NoDispatchMode
    THEN [dispatch_mode |-> mode, raised |-> "None"]
    ELSE IF current # mode
    THEN [dispatch_mode |-> current, raised |-> "dispatch_mode_conflict"]
    ELSE [dispatch_mode |-> current, raised |-> "None"]

-----------------------------------------------------------------------------
(* Environment: what a handler and the remote side can do *)

\* a one-word string
Word(w) == StrVal(<<w>>)

\* what calling a registered handler can produce: a plain value, a dict that
\* already is an envelope {contentItems, success: False}, an exception, or
\* an awaitable (an async handler)
HandlerResults == {"returns", "returns_failure_envelope", "raises", "awaitable"}

\* what one tool_calls.respond call can produce: a transport exception or
\* a response
TransportException == [raised |-> TRUE, response |-> None]

Response(r) == [raised |-> FALSE, response |-> r]

RespondResults ==
    {TransportException}
        \cup {Response(r) :
                r \in {Other,
                       Dict(None, None),
                       Dict(Word("ok"), None),
                       Dict(StrVal(<<" ", "ok">>), None),
                       Dict(Word("conflict"), Word("in_flight")),
                       Dict(Word("conflict"), Word("stale")),
                       Dict(Word("not_found"), None),
                       Dict(Word("error"), Word("busy"))}}

\* the operation is run by the Async class: env.session_class says so
IsAsync(env) ==
    "session_class" \in DOMAIN env /\ env.session_class = "AsyncRemoteSkillSession"

\* the environment env met by the asynchronous session
AsyncEnv(env) == ("session_class" :> "AsyncRemoteSkillSession") @@ env

\* An environment env says what the handlers (env.handler_results) and the
\* remote side (env.respond_results) may do during one operation.
FullEnv == [handler_results |-> HandlerResults, respond_results |-> RespondResults]

\* the environment of a drain: handlers return or raise, a respond call is
\* accepted or fails in transport
DrainEnv ==
    [handler_results |-> {"returns", "raises"},
     respond_results |-> {TransportException, Response(Dict(Word("ok"), None))}]

-----------------------------------------------------------------------------
(* Submission *)

_ToolCallSubmission(accepted, retryable, idempotent, status, code, error) ==
    [accepted |-> accepted, retryable |-> retryable, idempotent |-> idempotent,
     status |-> status, code |-> code, error |-> error, attempts |-> 0]

\* mutant: only status "ok" is accepted; "conflict" and "not_found" are
\* rejections
_classify_tool_call_response_OnlyOkAccepted(response) ==
    IF response.t # "dict"
    THEN _ToolCallSubmission(FALSE, TRUE, FALSE, Word("malformed"), None,
                             Word("rejected with malformed response payload"))
    ELSE LET status == _as_non_empty_string(response.status)
             code == _as_non_empty_string(response.code)
         IN  IF status = None
             THEN _ToolCallSubmission(FALSE, TRUE, FALSE, Word("malformed"), code,
                                      Word("rejected with malformed status payload"))
             ELSE IF status = Word("ok")
             THEN _ToolCallSubmission(TRUE, FALSE, FALSE, status, code, None)
             ELSE IF status = Word("error")
             THEN _ToolCallSubmission(FALSE, TRUE, FALSE, status, code,
                                      Word("rejected with status"))
             ELSE _ToolCallSubmission(FALSE, FALSE, FALSE, status, code,
                                      Word("rejected with status"))

\* mutant: a malformed response is a final rejection
_classify_tool_call_response_MalformedNotRetryable(response) ==
    IF response.t # "dict"
    THEN _ToolCallSubmission(FALSE, FALSE, FALSE, Word("malformed"), None,
                             Word("rejected with malformed response payload"))
    ELSE LET status == _as_non_empty_string(response.status)
             code == _as_non_empty_string(response.code)
         IN  IF status = None
             THEN _ToolCallSubmission(FALSE, FALSE, FALSE, Word("malformed"), code,
                                      Word("rejected with malformed status payload"))
             ELSE IF status = Word("ok")
             THEN _ToolCallSubmission(TRUE, FALSE, FALSE, status, code, None)
             ELSE IF status = Word("conflict") /\ code = Word("in_flight")
             THEN _ToolCallSubmission(TRUE, FALSE, TRUE, status, code,
                                      Word("tool call response already in flight"))
             ELSE IF status = Word("not_found")
             THEN _ToolCallSubmission(TRUE, FALSE, TRUE, status, code,
                                      Word("tool call already resolved or unavailable"))
             ELSE IF status = Word("error")
             THEN _ToolCallSubmission(FALSE, TRUE, FALSE, status, code,
                                      Word("rejected with status"))
             ELSE _ToolCallSubmission(FALSE, FALSE, FALSE, status, code,
                                      Word("rejected with status"))

\* mutant: a dict without status is accepted like status "ok"
_classify_tool_call_response_AbsentStatusAccepted(response) ==
    IF response.t # "dict"
    THEN _ToolCallSubmission(FALSE, TRUE, FALSE, Word("malformed"), None,
                             Word("rejected with malformed response payload"))
    ELSE LET status == _as_non_empty_string(response.status)
             code == _as_non_empty_string(response.code)
         IN  IF status = None \/ status = Word("ok")
             THEN _ToolCallSubmission(TRUE, FALSE, FALSE, status, code, None)
             ELSE IF status = Word("conflict") /\ code = Word("in_flight")
             THEN _ToolCallSubmission(TRUE, FALSE, TRUE, status, code,
                                      Word("tool call response already in flight"))
             ELSE IF status = Word("not_found")
             THEN _ToolCallSubmission(TRUE, FALSE, TRUE, status, code,
                                      Word("tool call already resolved or unavailable"))
             ELSE IF status = Word("error")
             THEN _ToolCallSubmission(FALSE, TRUE, FALSE, status, code,
                                      Word("rejected with status"))
             ELSE _ToolCallSubmission(FALSE, FALSE, FALSE, status, code,
                                      Word("rejected with status"))

_classify_tool_call_response(response) ==
    IF response.t # "dict"
    THEN _ToolCallSubmission(FALSE, TRUE, FALSE, Word("malformed"), None,
                             Word("rejected with malformed response payload"))
    ELSE LET status == _as_non_empty_string(response.status)
             code == _as_non_empty_string(response.code)
         IN  IF status = None
             THEN _ToolCallSubmission(FALSE, TRUE, FALSE, Word("malformed"), code,
                                      Word("rejected with malformed status payload"))
             ELSE IF status = Word("ok")
             THEN _ToolCallSubmission(TRUE, FALSE, FALSE, status, code, None)
             ELSE IF status = Word("conflict") /\ code = Word("in_flight")
             THEN _ToolCallSubmission(TRUE, FALSE, TRUE, status, code,
                                      Word("tool call response already in flight"))
             ELSE IF status = Word("not_found")
             THEN _ToolCallSubmission(TRUE, FALSE, TRUE, status, code,
                                      Word("tool call already resolved or unavailable"))
             ELSE IF status = Word("error")
             THEN _ToolCallSubmission(FALSE, TRUE, FALSE, status, code,
                                      Word("rejected with status"))
             ELSE _ToolCallSubmission(FALSE, FALSE, FALSE, status, code,
                                      Word("rejected with status"))

\* mutant: one attempt more than asked for
_normalize_retry_settings_OneMore(max_submit_attempts) ==
    (IF max_submit_attempts < 1 THEN 1 ELSE max_submit_attempts) + 1

\* the attempt limit (the delay is not modelled)
_normalize_retry_settings(max_submit_attempts) ==
    IF max_submit_attempts < 1 THEN 1 ELSE max_submit_attempts

\* the loop body of _submit_tool_call_response from attempt on: every
\* (submission, number of respond calls made, status each call ended with,
\* response to the last call) the remote side can cause
RECURSIVE SubmitAttempt(_, _, _)
SubmitAttempt(attempt, attempts, env) ==
    LET Continue(status) ==
            {[r EXCEPT !.calls = @ + 1, !.answers = <<status>> \o @] :
                r \in SubmitAttempt(attempt + 1, attempts, env)}
        Step(o) ==
            IF o.raised
            THEN IF attempt < attempts
                 THEN Continue(Word("exception"))
                 ELSE {[submission |->
                           [_ToolCallSubmission(FALSE, FALSE, FALSE, Word("exception"), None,
                                                Word("tool call response submit failed"))
                               EXCEPT !.attempts = attempt],
                        calls |-> 1, answers |-> <<Word("exception")>>,
                        response |-> None]}
            ELSE LET submission == [_classify_tool_call_response(o.response)
                                       EXCEPT !.attempts = attempt]
                     ended == [submission |-> submission, calls |-> 1,
                               answers |-> <<submission.status>>, response |-> o.response]
                 IN  IF submission.accepted
                     THEN {ended}
                     ELSE IF submission.retryable /\ attempt < attempts
                     THEN Continue(submission.status)
                     ELSE {ended}
    IN  UNION {Step(o) : o \in env.respond_results}

\* mutant: the attempt number is not stamped on the submission
_submit_tool_call_response_AttemptsNotStamped(max_submit_attempts, env) ==
    {[r EXCEPT !.submission.attempts = 0] :
        r \in SubmitAttempt(1, _normalize_retry_settings(max_submit_attempts), env)}

_submit_tool_call_response(max_submit_attempts, env) ==
    SubmitAttempt(1, _normalize_retry_settings(max_submit_attempts), env)

-----------------------------------------------------------------------------
(* Dispatch *)

RemoteSkillDispatch(handled, tool, request_id, response_success, error) ==
    [handled |-> handled, tool |-> tool, request_id |-> request_id,
     response_success |-> response_success, error |-> error,
     submission_status |-> None, submission_code |-> None,
     submission_attempts |-> 0, submission_idempotent |-> FALSE]

\* mutant: the message for a missing skill is wrapped like a handler result
dispatch_tool_call_MissingAsSuccess(skills, tool, request_id, handler_result) ==
    LET normalized_tool == strip(tool)
    IN  IF normalized_tool \notin skills
        THEN RemoteSkillDispatch(FALSE, normalized_tool, request_id, TRUE,
                                 Word("no remote skill registered"))
        ELSE IF handler_result = "returns"
        THEN RemoteSkillDispatch(TRUE, normalized_tool, request_id, TRUE, None)
        ELSE IF handler_result = "returns_failure_envelope"
        THEN RemoteSkillDispatch(TRUE, normalized_tool, request_id, FALSE, None)
        ELSE IF handler_result = "awaitable"
        THEN RemoteSkillDispatch(FALSE, normalized_tool, request_id, FALSE,
                                 Word("returned awaitable in sync context"))
        ELSE RemoteSkillDispatch(FALSE, normalized_tool, request_id, FALSE,
                                 Word("handler error"))

\* mutant: an awaitable is not detected and is wrapped like any result
dispatch_tool_call_AwaitableUnchecked(skills, tool, request_id, handler_result) ==
    LET normalized_tool == strip(tool)
    IN  IF normalized_tool \notin skills
        THEN RemoteSkillDispatch(FALSE, normalized_tool, request_id, FALSE,
                                 Word("no remote skill registered"))
        ELSE IF handler_result \in {"returns", "awaitable"}
        THEN RemoteSkillDispatch(TRUE, normalized_tool, request_id, TRUE, None)
        ELSE IF handler_result = "returns_failure_envelope"
        THEN RemoteSkillDispatch(TRUE, normalized_tool, request_id, FALSE, None)
        ELSE RemoteSkillDispatch(FALSE, normalized_tool, request_id, FALSE,
                                 Word("handler error"))

\* handler_result is what the handler does if it is invoked
dispatch_tool_call(skills, tool, request_id, handler_result) ==
    LET normalized_tool == strip(tool)
    IN  IF normalized_tool \notin skills
        THEN RemoteSkillDispatch(FALSE, normalized_tool, request_id, FALSE,
                                 Word("no remote skill registered"))
        ELSE IF handler_result = "returns"
        THEN RemoteSkillDispatch(TRUE, normalized_tool, request_id, TRUE, None)
        ELSE IF handler_result = "returns_failure_envelope"
        THEN RemoteSkillDispatch(TRUE, normalized_tool, request_id, FALSE, None)
        ELSE IF handler_result = "awaitable"
        THEN RemoteSkillDispatch(FALSE, normalized_tool, request_id, FALSE,
                                 Word("returned awaitable in sync context"))
        ELSE RemoteSkillDispatch(FALSE, normalized_tool, request_id, FALSE,
                                 Word("handler error"))

\* what awaiting the handler's result gives: an awaitable is awaited (a
\* coroutine that returns a plain value), anything else is passed on
_invoke_handler_async(handler_result) ==
    IF handler_result = "awaitable" THEN "returns" ELSE handler_result

\* AsyncRemoteSkillSession.dispatch_tool_call
async_dispatch_tool_call(skills, tool, request_id, handler_result) ==
    LET normalized_tool == strip(tool)
        result == _invoke_handler_async(handler_result)
    IN  IF normalized_tool \notin skills
        THEN RemoteSkillDispatch(FALSE, normalized_tool, request_id, FALSE,
                                 Word("no remote skill registered"))
        ELSE IF result = "returns"
        THEN RemoteSkillDispatch(TRUE, normalized_tool, request_id, TRUE, None)
        ELSE IF result = "returns_failure_envelope"
        THEN RemoteSkillDispatch(TRUE, normalized_tool, request_id, FALSE, None)
        ELSE RemoteSkillDispatch(FALSE, normalized_tool, request_id, FALSE,
                                 Word("handler error"))

\* mutant: an accepted request id is not remembered
_finalize_submitted_dispatch_NoRemember(handled_request_ids, dispatched, submission, request_id) ==
    LET stamped == [dispatched EXCEPT !.submission_status = submission.status,
                                      !.submission_code = submission.code,
                                      !.submission_attempts = submission.attempts,
                                      !.submission_idempotent = submission.idempotent]
    IN  IF submission.accepted
        THEN {[handled_request_ids |-> handled_request_ids, dispatch |-> stamped]}
        ELSE {[handled_request_ids |-> handled_request_ids,
               dispatch |-> [stamped EXCEPT !.handled = FALSE,
                                            !.error = IF submission.error # None
                                                      THEN submission.error
                                                      ELSE Word("tool call response submission failed")]]}

\* mutant: the request id is remembered whether or not it was accepted
_finalize_submitted_dispatch_RememberAlways(handled_request_ids, dispatched, submission, request_id) ==
    LET stamped == [dispatched EXCEPT !.submission_status = submission.status,
                                      !.submission_code = submission.code,
                                      !.submission_attempts = submission.attempts,
                                      !.submission_idempotent = submission.idempotent]
        failed == [stamped EXCEPT !.handled = FALSE,
                                  !.error = IF submission.error # None
                                            THEN submission.error
                                            ELSE Word("tool call response submission failed")]
    IN  {[handled_request_ids |-> h,
          dispatch |-> IF submission.accepted THEN stamped ELSE failed] :
            h \in _remember_handled_request(handled_request_ids, request_id)}

\* mutant: handled is taken from the submission
_finalize_submitted_dispatch_HandledFromAccepted(handled_request_ids, dispatched, submission, request_id) ==
    LET stamped == [dispatched EXCEPT !.submission_status = submission.status,
                                      !.submission_code = submission.code,
                                      !.submission_attempts = submission.attempts,
                                      !.submission_idempotent = submission.idempotent,
                                      !.handled = submission.accepted]
    IN  IF submission.accepted
        THEN {[handled_request_ids |-> h, dispatch |-> stamped] :
                 h \in _remember_handled_request(handled_request_ids, request_id)}
        ELSE {[handled_request_ids |-> handled_request_ids,
               dispatch |-> [stamped EXCEPT !.error = IF submission.error # None
                                                      THEN submission.error
                                                      ELSE Word("tool call response submission failed")]]}

\* the (cache, Dispatch) pairs the finalisation can produce
_finalize_submitted_dispatch(handled_request_ids, dispatched, submission, request_id) ==
    LET stamped == [dispatched EXCEPT !.submission_status = submission.status,
                                      !.submission_code = submission.code,
                                      !.submission_attempts = submission.attempts,
                                      !.submission_idempotent = submission.idempotent]
    IN  IF submission.accepted
        THEN {[handled_request_ids |-> h, dispatch |-> stamped] :
                 h \in _remember_handled_request(handled_request_ids, request_id)}
        ELSE {[handled_request_ids |-> handled_request_ids,
               dispatch |-> [stamped EXCEPT !.handled = FALSE,
                                            !.error = IF submission.error # None
                                                      THEN submission.error
                                                      ELSE Word("tool call response submission failed")]]}

-----------------------------------------------------------------------------
(* Session operations.  An operation yields the set of its possible         *)
(* results: the registry afterwards, the Dispatches returned (none when it  *)
(* returns None or raises), the error raised, the tool_calls.respond calls  *)
(* made, and two records kept for the properties only: log has one entry    *)
(* per indication that reached dispatch_tool_call, notes one entry per      *)
(* indication looked at.                                                    *)

OpResult(reg, returned, raised, calls, log, notes) ==
    [registry |-> reg, returned |-> returned, raised |-> raised,
     calls |-> calls, log |-> log, notes |-> notes]

Ignored(reg, note) == OpResult(reg, <<>>, "None", <<>>, <<>>, <<note>>)

LogEntry(reg, d, request_id, matched, handler_result, duplicate, submitted, accepted, calls) ==
    [mode |-> reg.dispatch_mode, tool |-> d.tool, request_id |-> request_id, matched |-> matched,
     handler_result |-> handler_result, local_handled |-> d.handled,
     handled_len |-> HandledLen(reg.handled_request_ids),
     duplicate |-> duplicate, submitted |-> submitted, accepted |-> accepted,
     calls |-> calls, answers |-> <<>>, limit |-> 0, max_submit_attempts |-> 0,
     response |-> None]

\* mutant: the dedup cache is consulted before the handler is invoked, and
\* the handler of a known request id is not run again
RespondToToolCall_DedupBeforeHandler(reg, mode, tool, raw_request_id, max_submit_attempts, env) ==
    LET required == _require_dispatch_mode(reg.dispatch_mode, mode)
        reg1 == [reg EXCEPT !.dispatch_mode = required.dispatch_mode]
        matched == strip(tool) \in reg.skills
        early == _to_request_id_string(raw_request_id)
        known == early # None /\ early.v \in reg.handled_request_ids.ids
        After(handler_result) ==
            LET dispatched == IF IsAsync(env)
                              THEN async_dispatch_tool_call(reg1.skills, tool, raw_request_id,
                                                            handler_result)
                              ELSE dispatch_tool_call(reg1.skills, tool, raw_request_id,
                                                      handler_result)
                request_id == _to_request_id_string(dispatched.request_id)
            IN  IF request_id = None
                THEN {OpResult(reg1,
                               <<[dispatched EXCEPT !.submission_status = Word("no_request_id")]>>,
                               "None", <<>>,
                               <<LogEntry(reg1, dispatched, None, matched, handler_result,
                                          FALSE, FALSE, FALSE, 0)>>,
                               <<"dispatched">>)}
                ELSE IF request_id.v \in reg1.handled_request_ids.ids
                THEN {OpResult(reg1,
                               <<[dispatched EXCEPT !.submission_status = Word("local_duplicate"),
                                                    !.submission_idempotent = TRUE]>>,
                               "None", <<>>,
                               <<LogEntry(reg1, dispatched, request_id, matched, handler_result,
                                          TRUE, FALSE, FALSE, 0)>>,
                               <<"dispatched">>)}
                ELSE UNION {
                       {OpResult([reg1 EXCEPT !.handled_request_ids = f.handled_request_ids],
                                 <<f.dispatch>>, "None",
                                 [i \in 1..s.calls |->
                                     [request_id |-> request_id.v,
                                      success |-> dispatched.response_success]],
                                 <<[LogEntry(reg1, dispatched, request_id, matched,
                                             handler_result, FALSE, TRUE,
                                             s.submission.accepted, s.calls)
                                       EXCEPT !.answers = s.answers,
                                              !.response = s.response,
                                              !.limit = _normalize_retry_settings(
                                                            max_submit_attempts),
                                              !.max_submit_attempts =
                                                  max_submit_attempts]>>,
                                 <<"dispatched">>) :
                          f \in _finalize_submitted_dispatch(reg1.handled_request_ids, dispatched,
                                                             s.submission, request_id.v)} :
                       s \in _submit_tool_call_response(max_submit_attempts, env)}
    IN  IF required.raised # "None"
        THEN {OpResult(reg, <<>>, required.raised, <<>>, <<>>, <<"raised">>)}
        ELSE IF matched /\ ~known
        THEN UNION {After(h) : h \in env.handler_results}
        ELSE After("not_invoked")

\* respond_to_signal / respond_to_pending_call from the mode check on; the
\* two methods differ only in the mode they require
RespondToToolCall(reg, mode, tool, raw_request_id, max_submit_attempts, env) ==
    LET required == _require_dispatch_mode(reg.dispatch_mode, mode)
        reg1 == [reg EXCEPT !.dispatch_mode = required.dispatch_mode]
        matched == strip(tool) \in reg.skills
        After(handler_result) ==
            LET dispatched == IF IsAsync(env)
                              THEN async_dispatch_tool_call(reg1.skills, tool, raw_request_id,
                                                            handler_result)
                              ELSE dispatch_tool_call(reg1.skills, tool, raw_request_id,
                                                      handler_result)
                request_id == _to_request_id_string(dispatched.request_id)
            IN  IF request_id = None
                THEN {OpResult(reg1,
                               <<[dispatched EXCEPT !.submission_status = Word("no_request_id")]>>,
                               "None", <<>>,
                               <<LogEntry(reg1, dispatched, None, matched, handler_result,
                                          FALSE, FALSE, FALSE, 0)>>,
                               <<"dispatched">>)}
                ELSE IF request_id.v \in reg1.handled_request_ids.ids
                THEN {OpResult(reg1,
                               <<[dispatched EXCEPT !.submission_status = Word("local_duplicate"),
                                                    !.submission_idempotent = TRUE]>>,
                               "None", <<>>,
                               <<LogEntry(reg1, dispatched, request_id, matched, handler_result,
                                          TRUE, FALSE, FALSE, 0)>>,
                               <<"dispatched">>)}
                ELSE UNION {
                       {OpResult([reg1 EXCEPT !.handled_request_ids = f.handled_request_ids],
                                 <<f.dispatch>>, "None",
                                 [i \in 1..s.calls |->
                                     [request_id |-> request_id.v,
                                      success |-> dispatched.response_success]],
                                 <<[LogEntry(reg1, dispatched, request_id, matched,
                                             handler_result, FALSE, TRUE,
                                             s.submission.accepted, s.calls)
                                       EXCEPT !.answers = s.answers,
                                              !.response = s.response,
                                              !.limit = _normalize_retry_settings(
                                                            max_submit_attempts),
                                              !.max_submit_attempts =
                                                  max_submit_attempts]>>,
                                 <<"dispatched">>) :
                          f \in _finalize_submitted_dispatch(reg1.handled_request_ids, dispatched,
                                                             s.submission, request_id.v)} :
                       s \in _submit_tool_call_response(max_submit_attempts, env)}
    IN  IF required.raised # "None"
        THEN {OpResult(reg, <<>>, required.raised, <<>>, <<>>, <<"raised">>)}
        ELSE IF matched
        THEN UNION {After(h) : h \in env.handler_results}
        ELSE After("not_invoked")

respond_to_signal(reg, session_id, signal, max_submit_attempts, env) ==
    IF ~matches_signal(session_id, signal)
    THEN {Ignored(reg, "session_mismatch")}
    ELSE LET tool == _parse_tool_call_signal(signal)
         IN  IF tool = None
             THEN {Ignored(reg, "not_tool_call")}
             ELSE RespondToToolCall(reg, _DISPATCH_MODE_SIGNAL, tool.v, signal.request_id,
                                    max_submit_attempts, env)

respond_to_pending_call(reg, session_id, pending_call, max_submit_attempts, env) ==
    LET pending_session_id == _pending_call_session_id(pending_call)
    IN  IF pending_session_id # None /\ pending_session_id # StrVal(session_id)
        THEN {Ignored(reg, "session_mismatch")}
        ELSE LET parsed == _parse_pending_tool_call(pending_call)
             IN  IF parsed.tool = None
                 THEN {Ignored(reg, "not_tool_call")}
                 ELSE RespondToToolCall(reg, _DISPATCH_MODE_POLLING, parsed.tool.v,
                                        parsed.request_id, max_submit_attempts, env)

\* a list value
ListVal(rows) == [t |-> "list", v |-> rows]

\* the payload of sessions.tool_calls
Payload(data, status, code) == [t |-> "dict", data |-> data, status |-> status, code |-> code]

\* mutant: every object without a data list is an empty listing
_parse_pending_tool_call_rows_MissingListIsEmpty(payload) ==
    IF payload.t # "dict" THEN [raised |-> "unexpected_payload_type", rows |-> <<>>]
    ELSE IF payload.data.t = "list" THEN [raised |-> "None", rows |-> payload.data.v]
    ELSE [raised |-> "None", rows |-> <<>>]

_parse_pending_tool_call_rows(payload) ==
    IF payload.t # "dict" THEN [raised |-> "unexpected_payload_type", rows |-> <<>>]
    ELSE IF payload.data.t = "list" THEN [raised |-> "None", rows |-> payload.data.v]
    ELSE IF payload.status = Word("deleted") THEN [raised |-> "None", rows |-> <<>>]
    ELSE IF payload.status = Word("error") /\ payload.code = Word("system_session")
    THEN [raised |-> "None", rows |-> <<>>]
    ELSE [raised |-> "missing_data_list", rows |-> <<>>]

\* mutant: the rows are taken from the end of the listing
RECURSIVE DrainRows_LastRowFirst(_, _, _, _, _, _)
DrainRows_LastRowFirst(acc, session_id, rows, i, max_submit_attempts, env) ==
    IF i > Len(rows) THEN {acc}
    ELSE UNION {
           LET merged == OpResult(r.registry, acc.returned \o r.returned, r.raised,
                                  acc.calls \o r.calls, acc.log \o r.log, acc.notes \o r.notes)
           IN  IF r.raised # "None"
               THEN {[merged EXCEPT !.returned = <<>>]}
               ELSE DrainRows_LastRowFirst(merged, session_id, rows, i + 1,
                                           max_submit_attempts, env) :
           r \in respond_to_pending_call(acc.registry, session_id, rows[Len(rows) + 1 - i],
                                          max_submit_attempts, env)}

\* the for loop of drain_pending_calls from row i on; an exception raised
\* for a row ends the drain and loses the list built so far
RECURSIVE DrainRows(_, _, _, _, _, _)
DrainRows(acc, session_id, rows, i, max_submit_attempts, env) ==
    IF i > Len(rows) THEN {acc}
    ELSE UNION {
           LET merged == OpResult(r.registry, acc.returned \o r.returned, r.raised,
                                  acc.calls \o r.calls, acc.log \o r.log, acc.notes \o r.notes)
           IN  IF r.raised # "None"
               THEN {[merged EXCEPT !.returned = <<>>]}
               ELSE DrainRows(merged, session_id, rows, i + 1, max_submit_attempts, env) :
           r \in respond_to_pending_call(acc.registry, session_id, rows[i],
                                          max_submit_attempts, env)}

drain_pending_calls(reg, session_id, payload, max_submit_attempts, env) ==
    LET parsed == _parse_pending_tool_call_rows(payload)
    IN  IF parsed.raised # "None"
        THEN {OpResult(reg, <<>>, parsed.raised, <<>>, <<>>, <<>>)}
        ELSE DrainRows(OpResult(reg, <<>>, "None", <<>>, <<>>, <<>>), session_id,
                       parsed.rows, 1, max_submit_attempts, env)

reset_dispatch_mode(reg) == [reg EXCEPT !.dispatch_mode = NoDispatchMode]

\* None when the name is empty after stripping (ValueError)
_normalize_skill_name(name) == IF strip(name) = <<>> THEN None ELSE StrVal(strip(name))

register(reg, name, sync_runtime) ==
    IF _require_catalog_mutation_allowed(reg) # "None"
    THEN OpResult(reg, <<>>, _require_catalog_mutation_allowed(reg), <<>>, <<>>, <<>>)
    ELSE IF _normalize_skill_name(name) = None
    THEN OpResult(reg, <<>>, "empty_skill_name", <<>>, <<>>, <<>>)
    ELSE OpResult([reg EXCEPT !.skills = @ \cup {_normalize_skill_name(name).v}], <<>>,
                  IF sync_runtime THEN "runtime_sync_disabled" ELSE "None", <<>>, <<>>, <<>>)

unregister(reg, name, sync_runtime) ==
    IF _require_catalog_mutation_allowed(reg) # "None"
    THEN OpResult(reg, <<>>, _require_catalog_mutation_allowed(reg), <<>>, <<>>, <<>>)
    ELSE IF _normalize_skill_name(name) = None
    THEN OpResult(reg, <<>>, "empty_skill_name", <<>>, <<>>, <<>>)
    ELSE LET removed == _normalize_skill_name(name).v \in reg.skills
         IN  OpResult([reg EXCEPT !.skills = @ \ {_normalize_skill_name(name).v}], <<>>,
                      IF removed /\ sync_runtime THEN "runtime_sync_disabled" ELSE "None",
                      <<>>, <<>>, <<>>)

\* mutant: clear does not look at the lock
clear_Unguarded(reg, sync_runtime) ==
    IF sync_runtime
    THEN OpResult(reg, <<>>, "runtime_sync_disabled", <<>>, <<>>, <<>>)
    ELSE OpResult([reg EXCEPT !.skills = {}], <<>>, "None", <<>>, <<>>, <<>>)

clear(reg, sync_runtime) ==
    IF _require_catalog_mutation_allowed(reg) # "None"
    THEN OpResult(reg, <<>>, _require_catalog_mutation_allowed(reg), <<>>, <<>>, <<>>)
    ELSE IF sync_runtime
    THEN OpResult(reg, <<>>, "runtime_sync_disabled", <<>>, <<>>, <<>>)
    ELSE OpResult([reg EXCEPT !.skills = {}], <<>>, "None", <<>>, <<>>, <<>>)

-----------------------------------------------------------------------------
(* send_and_handle.  Time is counted in ticks; a network exception of       *)
(* sessions.get / sessions.tool_calls inside the loop is not modelled.      *)

_DEFAULT_TERMINAL_TURN_STATUSES ==
    {<<"completed">>, <<"complete">>, <<"failed">>, <<"error">>,
     <<"interrupted">>, <<"canceled">>, <<"cancelled">>}

\* str.lower() of one atom
LowerAtom(a) ==
    CASE a = "COMPLETED" -> "completed"
      [] a = "Done" -> "done"
      [] OTHER -> a

lower(s) == IF s = <<>> THEN <<>> ELSE [i \in 1..Len(s) |-> LowerAtom(s[i])]

\* mutant: the terminal statuses are kept in the case they were given
_normalize_statuses_CaseKept(values) ==
    LET source == IF values = None THEN {StrVal(s) : s \in _DEFAULT_TERMINAL_TURN_STATUSES}
                  ELSE IF values.t = "str" THEN {values}
                  ELSE {values.v[i] : i \in DOMAIN values.v}
        normalized == {strip(value.v) : value \in {x \in source : x.t = "str"}} \ {<<>>}
    IN  IF \E value \in source : value.t # "str"
        THEN [raised |-> "terminal_statuses_not_strings", statuses |-> {}]
        ELSE IF normalized = {}
        THEN [raised |-> "terminal_statuses_empty", statuses |-> {}]
        ELSE [raised |-> "None", statuses |-> normalized]

_normalize_statuses(values) ==
    LET source == IF values = None THEN {StrVal(s) : s \in _DEFAULT_TERMINAL_TURN_STATUSES}
                  ELSE IF values.t = "str" THEN {values}
                  ELSE {values.v[i] : i \in DOMAIN values.v}
        normalized == {lower(strip(value.v)) : value \in {x \in source : x.t = "str"}} \ {<<>>}
    IN  IF \E value \in source : value.t # "str"
        THEN [raised |-> "terminal_statuses_not_strings", statuses |-> {}]
        ELSE IF normalized = {}
        THEN [raised |-> "terminal_statuses_empty", statuses |-> {}]
        ELSE [raised |-> "None", statuses |-> normalized]

\* the response of sessions.send_message
SendRaises == [t |-> "raises"]

TurnAccepted(turnId) == [t |-> "dict", turnId |-> turnId]

\* the session detail of sessions.get: a transcript of entries
Detail(transcript) == [t |-> "dict", transcript |-> transcript]

Entry(turnId, role, status, content) ==
    [t |-> "dict", turnId |-> turnId, role |-> role, status |-> status, content |-> content]

\* the for loop of _assistant_reply_for_turn, from entry i backwards
RECURSIVE ReplyFrom(_, _, _)
ReplyFrom(entries, i, turn_id) ==
    IF i = 0 THEN None
    ELSE LET entry == entries[i]
         IN  IF /\ entry.t = "dict"
                /\ entry.turnId = turn_id
                /\ entry.role = Word("assistant")
                /\ entry.status = Word("complete")
                /\ entry.content.t = "str"
                /\ strip(entry.content.v) # <<>>
             THEN StrVal(strip(entry.content.v))
             ELSE ReplyFrom(entries, i - 1, turn_id)

_assistant_reply_for_turn(detail, turn_id) ==
    IF detail.t # "dict" THEN None
    ELSE IF detail.transcript.t # "list" THEN None
    ELSE ReplyFrom(detail.transcript.v, Len(detail.transcript.v), turn_id)

\* what send_and_handle returns
RemoteSkillSendResult(turn_id, status, assistant_reply) ==
    [t |-> "result", turn_id |-> turn_id, status |-> status, assistant_reply |-> assistant_reply]

\* the state of a running send_and_handle: an OpResult with the loop
\* iterations so far, each the Dispatches of its drain, the status it read and
\* the ticks elapsed at its check, the session detail once it is fetched, the
\* turnId of the accepted message, and the status read after the loop
Polling(r, polls, turn_id) ==
    [registry |-> r.registry, returned |-> r.returned, raised |-> r.raised,
     calls |-> r.calls, log |-> r.log, notes |-> r.notes, polls |-> polls,
     detail |-> None, turn_id |-> turn_id, final_status |-> None]

\* an outcome of send_and_handle: an OpResult with the value returned
SendOutcome(r, raised, value) ==
    [registry |-> r.registry,
     returned |-> IF raised = "None" THEN r.returned ELSE <<>>,
     raised |-> raised, calls |-> r.calls, log |-> r.log, notes |-> r.notes,
     value |-> value,
     polls |-> IF "polls" \in DOMAIN r THEN r.polls ELSE <<>>,
     detail |-> IF "detail" \in DOMAIN r THEN r.detail ELSE None,
     turn_id |-> IF "turn_id" \in DOMAIN r THEN r.turn_id ELSE None,
     final_status |-> IF "final_status" \in DOMAIN r THEN r.final_status ELSE None]

\* mutant: a missing reply is returned as null even when one is required
FinishSend_ReplyNeverRequired(acc, args, turn_id, env) ==
    {LET assistant_reply == _assistant_reply_for_turn(detail, turn_id)
         read == [acc EXCEPT !.notes = @ \o <<"get", "turn_status">>,
                          !.detail = IF env.traced THEN detail ELSE @,
                          !.final_status = IF env.traced THEN final_status ELSE @]
     IN  SendOutcome(read, "None",
                     RemoteSkillSendResult(turn_id, final_status, assistant_reply)) :
       detail \in env.details, final_status \in env.statuses}

\* mutant: the result carries the status that ended the loop
FinishSend_LoopStatusReturned(acc, args, turn_id, env) ==
    {LET assistant_reply == _assistant_reply_for_turn(detail, turn_id)
         read == [acc EXCEPT !.notes = @ \o <<"get", "turn_status">>,
                          !.detail = IF env.traced THEN detail ELSE @,
                          !.final_status = IF env.traced THEN final_status ELSE @]
         status == IF acc.polls = <<>> THEN final_status
                   ELSE acc.polls[Len(acc.polls)].status
     IN  IF args.require_assistant_reply /\ assistant_reply = None
         THEN SendOutcome(read, "WaitTimeoutError_no_reply", None)
         ELSE SendOutcome(read, "None",
                          RemoteSkillSendResult(turn_id, status, assistant_reply)) :
       detail \in env.details, final_status \in env.statuses}

\* the code after the while loop
FinishSend(acc, args, turn_id, env) ==
    {LET assistant_reply == _assistant_reply_for_turn(detail, turn_id)
         read == [acc EXCEPT !.notes = @ \o <<"get", "turn_status">>,
                          !.detail = IF env.traced THEN detail ELSE @,
                          !.final_status = IF env.traced THEN final_status ELSE @]
     IN  IF args.require_assistant_reply /\ assistant_reply = None
         THEN SendOutcome(read, "WaitTimeoutError_no_reply", None)
         ELSE SendOutcome(read, "None",
                          RemoteSkillSendResult(turn_id, final_status, assistant_reply)) :
       detail \in env.details, final_status \in env.statuses}

\* reading of the clock when the loop of send_and_handle starts
ClockAtStart == 5

\* mutant: the asynchronous loop goes on at the deadline itself
TimeIsUp_AsyncDeadlineExclusive(env, start, now, timeout_seconds) ==
    IF IsAsync(env)
    THEN LET deadline == start + timeout_seconds IN now > deadline
    ELSE now - start >= timeout_seconds

\* the timeout test of the loop: time.monotonic() - start >= timeout_seconds
\* in RemoteSkillSession, loop.time() >= deadline in AsyncRemoteSkillSession
TimeIsUp(env, start, now, timeout_seconds) ==
    IF IsAsync(env)
    THEN LET deadline == start + timeout_seconds IN now >= deadline
    ELSE now - start >= timeout_seconds

\* mutant: the time is up only when more than timeout_seconds have elapsed
RECURSIVE PollLoop_TimeoutExclusive(_, _, _, _, _, _, _)
PollLoop_TimeoutExclusive(acc, elapsed, session_id, args, terminal, turn_id, env) ==
    UNION {
      LET drained == Polling(OpResult(r.registry, acc.returned \o r.returned, r.raised,
                                      acc.calls \o r.calls, acc.log \o r.log,
                                      acc.notes \o <<"drain">>),
                             acc.polls, acc.turn_id)
      IN  IF r.raised # "None"
          THEN {SendOutcome(drained, r.raised, None)}
          ELSE UNION {
                 LET now == elapsed + poll[2]
                     read == [drained EXCEPT
                                 !.notes = @ \o <<"turn_status">>,
                                 !.polls = IF env.traced
                                           THEN @ \o <<[drained |-> r.returned,
                                                        status |-> poll[1],
                                                        elapsed |-> now]>>
                                           ELSE @]
                 IN  IF poll[1].t = "str" /\ lower(strip(poll[1].v)) \in terminal
                     THEN FinishSend([read EXCEPT !.notes = @ \o <<"break">>],
                                     args, turn_id, env)
                     ELSE IF now > args.timeout_seconds
                     THEN {SendOutcome(read, "WaitTimeoutError", None)}
                     ELSE PollLoop_TimeoutExclusive([read EXCEPT !.notes = @ \o <<"sleep">>],
                                   now + args.interval_seconds,
                                   session_id, args, terminal, turn_id, env) :
                 poll \in env.statuses \X env.delays} :
      r \in UNION {drain_pending_calls(acc.registry, session_id, payload,
                                       args.max_submit_attempts, env) :
                      payload \in env.payloads}}

\* the while loop of send_and_handle, elapsed ticks after the loop started
RECURSIVE PollLoop(_, _, _, _, _, _, _)
PollLoop(acc, elapsed, session_id, args, terminal, turn_id, env) ==
    UNION {
      LET drained == Polling(OpResult(r.registry, acc.returned \o r.returned, r.raised,
                                      acc.calls \o r.calls, acc.log \o r.log,
                                      acc.notes \o <<"drain">>),
                             acc.polls, acc.turn_id)
      IN  IF r.raised # "None"
          THEN {SendOutcome(drained, r.raised, None)}
          ELSE UNION {
                 LET now == elapsed + poll[2]
                     read == [drained EXCEPT
                                 !.notes = @ \o <<"turn_status">>,
                                 !.polls = IF env.traced
                                           THEN @ \o <<[drained |-> r.returned,
                                                        status |-> poll[1],
                                                        elapsed |-> now]>>
                                           ELSE @]
                 IN  IF poll[1].t = "str" /\ lower(strip(poll[1].v)) \in terminal
                     THEN FinishSend([read EXCEPT !.notes = @ \o <<"break">>],
                                     args, turn_id, env)
                     ELSE IF TimeIsUp(env, ClockAtStart, ClockAtStart + now,
                                      args.timeout_seconds)
                     THEN {SendOutcome(read, "WaitTimeoutError", None)}
                     ELSE PollLoop([read EXCEPT !.notes = @ \o <<"sleep">>],
                                   now + args.interval_seconds,
                                   session_id, args, terminal, turn_id, env) :
                 poll \in env.statuses \X env.delays} :
      r \in UNION {drain_pending_calls(acc.registry, session_id, payload,
                                       args.max_submit_attempts, env) :
                      payload \in env.payloads}}

\* mutant: the terminal statuses are normalised before the mode is required
send_and_handle_StatusesBeforeMode(reg, session_id, args, env) ==
    LET start == OpResult(reg, <<>>, "None", <<>>, <<>>, <<>>)
        required == _require_dispatch_mode(reg.dispatch_mode, _DISPATCH_MODE_POLLING)
        reg1 == [reg EXCEPT !.dispatch_mode = required.dispatch_mode]
        locked == OpResult(reg1, <<>>, "None", <<>>, <<>>, <<>>)
        terminal == _normalize_statuses(args.terminal_statuses)
        Sent(accepted) ==
            LET sent == Polling([locked EXCEPT !.notes = <<"send">>], <<>>,
                                IF env.traced /\ accepted.t = "dict"
                                THEN accepted.turnId ELSE None)
            IN  IF accepted.t = "raises"
                THEN {SendOutcome(sent, "send_failed", None)}
                ELSE IF accepted.t # "dict"
                THEN {SendOutcome(sent, "unexpected_send_response", None)}
                ELSE IF accepted.turnId.t # "str" \/ strip(accepted.turnId.v) = <<>>
                THEN {SendOutcome(sent, "missing_turn_id", None)}
                ELSE PollLoop(sent, 0, session_id, args, terminal.statuses,
                              accepted.turnId, env)
    IN  IF args.timeout_seconds <= 0
        THEN {SendOutcome(start, "timeout_seconds_not_positive", None)}
        ELSE IF args.interval_seconds <= 0
        THEN {SendOutcome(start, "interval_seconds_not_positive", None)}
        ELSE IF terminal.raised # "None"
        THEN {SendOutcome(start, terminal.raised, None)}
        ELSE IF required.raised # "None"
        THEN {SendOutcome(start, required.raised, None)}
        ELSE UNION {Sent(accepted) : accepted \in env.send_results}

\* the outcomes of send_and_handle
send_and_handle(reg, session_id, args, env) ==
    LET start == OpResult(reg, <<>>, "None", <<>>, <<>>, <<>>)
        required == _require_dispatch_mode(reg.dispatch_mode, _DISPATCH_MODE_POLLING)
        reg1 == [reg EXCEPT !.dispatch_mode = required.dispatch_mode]
        locked == OpResult(reg1, <<>>, "None", <<>>, <<>>, <<>>)
        terminal == _normalize_statuses(args.terminal_statuses)
        Sent(accepted) ==
            LET sent == Polling([locked EXCEPT !.notes = <<"send">>], <<>>,
                                IF env.traced /\ accepted.t = "dict"
                                THEN accepted.turnId ELSE None)
            IN  IF accepted.t = "raises"
                THEN {SendOutcome(sent, "send_failed", None)}
                ELSE IF accepted.t # "dict"
                THEN {SendOutcome(sent, "unexpected_send_response", None)}
                ELSE IF accepted.turnId.t # "str" \/ strip(accepted.turnId.v) = <<>>
                THEN {SendOutcome(sent, "missing_turn_id", None)}
                ELSE PollLoop(sent, 0, session_id, args, terminal.statuses,
                              accepted.turnId, env)
    IN  IF args.timeout_seconds <= 0
        THEN {SendOutcome(start, "timeout_seconds_not_positive", None)}
        ELSE IF args.interval_seconds <= 0
        THEN {SendOutcome(start, "interval_seconds_not_positive", None)}
        ELSE IF required.raised # "None"
        THEN {SendOutcome(start, required.raised, None)}
        ELSE IF terminal.raised # "None"
        THEN {SendOutcome(locked, terminal.raised, None)}
        ELSE UNION {Sent(accepted) : accepted \in env.send_results}

-----------------------------------------------------------------------------
(* RemoteSkillsFacade.  facade.registries is the facade's _registries map   *)
(* (session id -> registry), facade.draft the draft registry of the last    *)
(* create_session (the register callback may keep the draft session),       *)
(* facade.supplied, for each session created and not closed since, the      *)
(* dynamic_tools the caller passed (kwargs_tools), the tool definitions of   *)
(* the draft (catalog) and the dynamic_tools sessions.create was given       *)
(* (create).                                                                 *)

_SkillRegistry(catalog_locked) ==
    [skills |-> {}, handled_request_ids |-> [ids |-> {}, others |-> 0],
     dispatch_mode |-> NoDispatchMode, catalog_locked |-> catalog_locked]

\* no such value: no draft kept, no session closed, no list passed
Absent == [t |-> "absent"]

\* a list of tool definitions passed as dynamic_tools
Tools(items) == [t |-> "list", items |-> items]

\* position of a skill name in sorted(skills)
SkillRank(name) ==
    CASE name = <<"p">> -> 1
      [] name = <<"q">> -> 2
      [] OTHER -> 3

\* the tool definitions of a catalog: one per skill, sorted by name
RECURSIVE _dynamic_tool_definitions(_)
_dynamic_tool_definitions(skills) ==
    IF skills = {} THEN <<>>
    ELSE LET name == CHOOSE x \in skills : \A y \in skills : SkillRank(x) <= SkillRank(y)
         IN  <<[name |-> name]>> \o _dynamic_tool_definitions(skills \ {name})

\* one call made on a session's catalog
CatalogOp(kind, name, sync_runtime) == [kind |-> kind, name |-> name, sync_runtime |-> sync_runtime]

ApplyCatalogOp(reg, op) ==
    IF op.kind = "register" THEN register(reg, op.name, op.sync_runtime)
    ELSE IF op.kind = "unregister" THEN unregister(reg, op.name, op.sync_runtime)
    ELSE clear(reg, op.sync_runtime)

\* the register callback of create_session: the calls it makes on the draft
\* session, in order, until one raises
RECURSIVE RunCallback(_, _, _)
RunCallback(reg, ops, i) ==
    IF i > Len(ops) THEN [registry |-> reg, raised |-> "None"]
    ELSE LET r == ApplyCatalogOp(reg, ops[i])
         IN  IF r.raised # "None" THEN [registry |-> r.registry, raised |-> r.raised]
             ELSE RunCallback(r.registry, ops, i + 1)

\* setdefault(session_id, default) on the facade's map
SetDefault(registries, session_id, default) ==
    IF session_id \in DOMAIN registries THEN registries
    ELSE [id \in DOMAIN registries \cup {session_id} |->
             IF id = session_id THEN default ELSE registries[id]]

\* outcome of a facade operation
FacadeResult(fac, op, session_id, raised, value) ==
    [fac EXCEPT !.last = [op |-> op, target |-> "facade", session_id |-> session_id,
                          raised |-> raised, value |-> value]]

\* mutant: the registry of a session id is stored as it was made
session_NoLock(fac, session_id) ==
    [fac EXCEPT !.registries = SetDefault(fac.registries, session_id, _SkillRegistry(FALSE))]

\* RemoteSkillsFacade.session
session(fac, session_id) ==
    LET stored == SetDefault(fac.registries, session_id, _SkillRegistry(FALSE))
    IN  [fac EXCEPT !.registries = [stored EXCEPT ![session_id].catalog_locked = TRUE]]

\* RemoteSkillsFacade.create_session.  callback is Absent (register=None) or
\* [ops, awaitable]; kwargs_tools the dynamic_tools the caller passed in
\* create_kwargs (Absent when none); ran is the draft registry as register(draft)
\* left it and what the callback raised; created what sessions.create answers.
create_session(fac, callback, kwargs_tools, ran, created) ==
    LET kept == [fac EXCEPT !.draft = IF callback = Absent THEN fac.draft ELSE ran.registry]
        dynamic_tools == _dynamic_tool_definitions(ran.registry.skills)
        supplied == IF dynamic_tools # <<>> /\ kwargs_tools = Absent
                    THEN Tools(dynamic_tools) ELSE kwargs_tools
        session_id == IF created.t = "dict" /\ created.session.t = "dict"
                      THEN created.session.sessionId ELSE None
    IN  IF ran.raised # "None"
        THEN FacadeResult(kept, "create_session", None, ran.raised, Absent)
        ELSE IF callback # Absent /\ callback.awaitable
        THEN FacadeResult(kept, "create_session", None, "register_callback_must_be_sync", Absent)
        ELSE IF created.t = "raises"
        THEN FacadeResult(kept, "create_session", None, "create_failed", Absent)
        ELSE IF session_id.t # "str" \/ strip(session_id.v) = <<>>
        THEN FacadeResult(kept, "create_session", None, "missing_session_id", Absent)
        ELSE LET bound == session(kept, session_id.v)
                 copied == [bound EXCEPT
                               !.registries[session_id.v].skills = ran.registry.skills,
                               !.registries[session_id.v].catalog_locked = TRUE,
                               !.supplied = [id \in DOMAIN @ \cup {session_id.v} |->
                                                IF id = session_id.v
                                                THEN [create |-> supplied,
                                                      kwargs_tools |-> kwargs_tools,
                                                      catalog |-> Tools(dynamic_tools)]
                                                ELSE @[id]]]
             IN  [FacadeResult(fac, "create_session", session_id.v, "None", Absent)
                     EXCEPT !.registries = copied.registries,
                            !.draft = copied.draft,
                            !.supplied = copied.supplied]

\* the registry a session handle retained from before close_session is
\* bound to: the object close_session cleared and took out of the map
\* (Absent when the session id was not in the map, so no handle exists)
Retained(fac, session_id, reg) ==
    IF session_id \in DOMAIN fac.registries
    THEN [session_id |-> session_id, registry |-> reg]
    ELSE fac.retained

\* mutant: the registry is taken out of the map with its skills
close_session_PopOnly(fac, session_id, delete_session, deleted, ignore_cleanup_errors) ==
    LET stored == SetDefault(fac.registries, session_id, _SkillRegistry(TRUE))
        forgotten == [id \in DOMAIN fac.supplied \ {session_id} |-> fac.supplied[id]]
    IN  IF delete_session /\ deleted = "raises" /\ ~ignore_cleanup_errors
        THEN [FacadeResult(fac, "close_session", session_id, "delete_failed", Absent)
                 EXCEPT !.registries = stored, !.supplied = forgotten]
        ELSE [FacadeResult(fac, "close_session", session_id, "None",
                           [delete_session |-> delete_session, deleted |-> deleted])
                 EXCEPT !.registries = [id \in DOMAIN stored \ {session_id} |-> stored[id]],
                        !.supplied = forgotten,
                        !.retained = Retained(fac, session_id, stored[session_id])]

\* RemoteSkillsFacade.close_session.  deleted is what sessions.delete does
\* when it is called: "raises" or "returns".  The value kept of the call is
\* whether the delete was asked for and what it did.
close_session(fac, session_id, delete_session, deleted, ignore_cleanup_errors) ==
    LET stored == SetDefault(fac.registries, session_id, _SkillRegistry(TRUE))
        cleared == [stored EXCEPT ![session_id].skills = {}]
        forgotten == [id \in DOMAIN fac.supplied \ {session_id} |-> fac.supplied[id]]
    IN  IF delete_session /\ deleted = "raises" /\ ~ignore_cleanup_errors
        THEN [FacadeResult(fac, "close_session", session_id, "delete_failed", Absent)
                 EXCEPT !.registries = cleared, !.supplied = forgotten]
        ELSE [FacadeResult(fac, "close_session", session_id, "None",
                           [delete_session |-> delete_session, deleted |-> deleted])
                 EXCEPT !.registries = [id \in DOMAIN cleared \ {session_id} |-> cleared[id]],
                        !.supplied = forgotten,
                        !.retained = Retained(fac, session_id, cleared[session_id])]

-----------------------------------------------------------------------------
(* Inputs *)

\* id of the session the RemoteSkillSession is bound to
SessionId == <<"s">>

\* the one skill registered at create time
SkillName == <<"p">>

\* (session["id"], context["threadId"]) of a signal
SessionContexts ==
    {<<StrVal(SessionId), None>>, <<None, StrVal(SessionId)>>,
     <<StrVal(<<"x">>), None>>, <<None, StrVal(<<"x">>)>>,
     <<StrVal(SessionId), StrVal(<<"x">>)>>, <<StrVal(<<" ">>), StrVal(<<"x">>)>>,
     <<StrVal(<<" ", "s">>), None>>}

Signals ==
    \* tool calls for the registered skill, every form of request id
    {Signal(TOOL_CALL_EVENT, StrVal(SkillName), request_id, None, None) :
        request_id \in {None, StrVal(<<" ">>), IntVal(1), StrVal(<<"1">>),
                        StrVal(<<" ", "1">>), IntVal(2)}}
    \* other tool names
    \cup {Signal(TOOL_CALL_EVENT, tool, request_id, None, None) :
             tool \in {StrVal(<<" ", "p", " ">>), StrVal(<<"q">>)},
             request_id \in {None, IntVal(1)}}
    \* every session context
    \cup {Signal(TOOL_CALL_EVENT, StrVal(SkillName), IntVal(2), c[1], c[2]) :
             c \in SessionContexts}
    \* signals that are not tool calls
    \cup {Signal(TOOL_CALL_EVENT, tool, IntVal(1), None, None) :
             tool \in {None, Other, StrVal(<<" ">>)}}
    \cup {Signal("app_server.item.completed", StrVal(SkillName), IntVal(1), None, None)}

PendingCalls ==
    {PendingCall(request_id, StrVal(SkillName), None) :
        request_id \in {None, IntVal(1), StrVal(<<" ", "1">>), IntVal(2), Other}}
    \cup {PendingCall(request_id, StrVal(<<"q">>), None) : request_id \in {None, IntVal(2)}}
    \cup {PendingCall(IntVal(1), StrVal(SkillName), thread_id) :
             thread_id \in {StrVal(SessionId), StrVal(<<"x">>)}}
    \cup {PendingCall(IntVal(1), None, None), PendingCall(IntVal(2), StrVal(<<" ">>), None), Other}

\* rows of the listings a drain is given
DrainRowChoices ==
    {PendingCall(IntVal(1), StrVal(SkillName), None),
     PendingCall(StrVal(<<"2">>), StrVal(<<"q">>), StrVal(SessionId)),
     PendingCall(IntVal(1), StrVal(SkillName), StrVal(<<"x">>)),
     PendingCall(IntVal(2), None, None)}

Listings == UNION {[1..n -> DrainRowChoices] : n \in 0..MaxRows}

Payloads ==
    {Payload(ListVal(rows), None, None) : rows \in Listings}
        \cup {Other,
              Payload(None, None, None),
              Payload(None, Word("deleted"), None),
              Payload(None, Word("error"), Word("system_session")),
              Payload(None, Word("error"), Word("other"))}

\* values passed as max_submit_attempts
SubmitAttemptArgs == {0, _DEFAULT_RESPONSE_SUBMIT_ATTEMPTS}

\* values a drain passes as max_submit_attempts
DrainAttemptArgs == {2}

SkillNameArgs == {SkillName, <<" ", "q">>, <<" ">>}

\* arguments of send_and_handle
SendArgs(timeout_seconds, interval_seconds, terminal_statuses, require_assistant_reply) ==
    [timeout_seconds |-> timeout_seconds, interval_seconds |-> interval_seconds,
     terminal_statuses |-> terminal_statuses,
     require_assistant_reply |-> require_assistant_reply,
     max_submit_attempts |-> 1]

SendArgChoices ==
    {SendArgs(MaxTimeout, 1, None, FALSE),
     SendArgs(MaxTimeout, 1, None, TRUE),
     SendArgs(MaxTimeout, 1, StrVal(<<" ", "Done">>), FALSE),
     SendArgs(0, 1, None, FALSE),
     SendArgs(MaxTimeout, 0, None, FALSE),
     SendArgs(MaxTimeout, 1, ListVal(<<StrVal(<<" ">>)>>), FALSE),
     SendArgs(MaxTimeout, 1, ListVal(<<Word("done"), IntVal(1)>>), FALSE)}

\* the environment of a send_and_handle: the handler returns, a respond call
\* is accepted or fails in transport; send_message fails, answers something
\* that is no dict, a dict without usable turnId, or a turn id; a listing is
\* empty, has one row or is malformed; a status read finds no status, a
\* status in upper case or a custom status; reading takes no time or a tick;
\* the iterations of the loop are not recorded
SendEnv ==
    [traced |-> FALSE,
     handler_results |-> {"returns"},
     respond_results |-> {TransportException, Response(Dict(Word("ok"), None))},
     send_results |-> {SendRaises, Other, TurnAccepted(None), TurnAccepted(StrVal(<<" ">>)),
                       TurnAccepted(Word("t"))},
     payloads |-> {Payload(ListVal(<<>>), None, None),
                   Payload(ListVal(<<PendingCall(IntVal(1), StrVal(SkillName), None)>>),
                           None, None),
                   Other},
     statuses |-> {None, Word("COMPLETED"), Word("Done")},
     delays |-> {0, 1},
     details |-> {Other,
                  Detail(ListVal(<<Entry(Word("t"), Word("assistant"), Word("complete"),
                                         StrVal(<<"hi", " ">>)),
                                   Entry(Word("t"), Word("assistant"), Word("streaming"),
                                         Word("later"))>>))}]

\* the same environment with the iterations of the loop recorded, and a
\* session detail whose only complete assistant entry is of another turn
TracedSendEnv ==
    [SendEnv EXCEPT
        !.traced = TRUE,
        !.details = @ \cup
            {Detail(ListVal(<<Entry(Word("u"), Word("assistant"), Word("complete"),
                                    Word("other")),
                              Entry(Word("t"), Word("assistant"), Word("streaming"),
                                    Word("later"))>>))}]

\* ids already acknowledged when the behaviour starts: a new session, and a
\* session that has acknowledged one id less than the cache holds
InitialOthers == {0, _MAX_HANDLED_REQUEST_IDS - 1}

-----------------------------------------------------------------------------
(* State machine.  registry is the session's _SkillRegistry.  last is the   *)
(* operation whose result the caller has not yet taken (op = "idle" when    *)
(* there is none), prev a summary of the operation before it, acked the     *)
(* request ids whose submission was ever accepted.                          *)

\* run_forever of the event stream is not running
NoStream ==
    [pc |-> "idle", stop_event |-> "None", thread_id |-> FALSE, cancelling |-> FALSE,
     reconnect_count |-> 0, open |-> FALSE, checked |-> FALSE, delivered |-> FALSE,
     raised |-> "None"]

\* EventRouter.dispatch is not running
NoRouter ==
    [pc |-> "idle", routes |-> <<>>, on_handler_error |-> "None", index |-> 0,
     seen |-> <<>>, raised |-> "None"]

\* the tasks of one event loop that share one AsyncRemoteSkillSession
TaskIds == {"a", "b"}

\* a task that has not started: op is the coroutine it runs, handler says
\* whether the handlers it meets are plain functions ("sync") or coroutine
\* functions ("async"), rows the listing rows still to answer, request_id
\* the id of the delivery in progress, attempt the respond calls made for
\* it, attempts the limit, submission_status that of the Dispatch it
\* produced last
NoTask ==
    [pc |-> "idle", op |-> "idle", handler |-> "sync", rows |-> <<>>,
     request_id |-> "None", attempt |-> 0, attempts |-> 0, submission_status |-> None,
     raised |-> "None"]

\* no task runs on the asynchronous session: dispatch_mode and
\* handled_request_ids are the fields of its registry (the cache stays far
\* below _MAX_HANDLED_REQUEST_IDS), invoked the handler invocations and
\* responded the tool_calls.respond calls made so far, reset whether
\* reset_dispatch_mode was called
NoTasks ==
    [dispatch_mode |-> NoDispatchMode, handled_request_ids |-> {}, reset |-> FALSE,
     invoked |-> {}, responded |-> {}, task |-> [t \in TaskIds |-> NoTask]]

\* no skill is being registered
NoSkill == [pc |-> "idle", handler |-> None, input_schema |-> None, stored |-> None]

\* no WaitApi call is running
NoWait ==
    [pc |-> "idle", op |-> "idle", args |-> None, attempts |-> 0, elapsed |-> 0,
     polled |-> <<>>, checks |-> <<>>, sleeps |-> 0, raised |-> "None", result |-> None,
     taken |-> "None"]

\* a facade as constructed: no registry stored
NoFacade ==
    [registries |-> <<>>, draft |-> Absent, supplied |-> <<>>, lifecycles |-> {},
     retained |-> Absent,
     last |-> [op |-> "idle", target |-> "facade", session_id |-> None, raised |-> "None",
               value |-> Absent]]

NoRegistry ==
    [skills |-> {}, handled_request_ids |-> [ids |-> {}, others |-> 0],
     dispatch_mode |-> NoDispatchMode, catalog_locked |-> FALSE]

Idle ==
    [op |-> "idle", arg |-> None, before |-> NoRegistry, acked_before |-> {},
     returned |-> <<>>, raised |-> "None", calls |-> <<>>, log |-> <<>>, notes |-> <<>>,
     value |-> None, polls |-> <<>>, detail |-> None, turn_id |-> None,
     final_status |-> None]

\* arg is the indication or the listing payload the operation was given
Record(op, arg, result) ==
    [op |-> op, arg |-> arg, before |-> registry, acked_before |-> acked,
     returned |-> result.returned, raised |-> result.raised,
     calls |-> result.calls, log |-> result.log, notes |-> result.notes,
     value |-> IF "value" \in DOMAIN result THEN result.value ELSE None,
     polls |-> IF "polls" \in DOMAIN result THEN result.polls ELSE <<>>,
     detail |-> IF "detail" \in DOMAIN result THEN result.detail ELSE None,
     turn_id |-> IF "turn_id" \in DOMAIN result THEN result.turn_id ELSE None,
     final_status |-> IF "final_status" \in DOMAIN result THEN result.final_status
                      ELSE None]

Accepted(log) == {log[i].request_id.v : i \in {j \in DOMAIN log : log[j].accepted}}

\* what is kept of an operation once its result is taken: the operation and,
\* of the last indication it dispatched, the request id, whether its
\* submission was accepted, whether it was a local duplicate and whether the
\* cache was full at that time
Summary(l) ==
    [op |-> l.op,
     request_id |-> IF l.log = <<>> THEN None ELSE l.log[Len(l.log)].request_id,
     accepted |-> l.log # <<>> /\ l.log[Len(l.log)].accepted,
     duplicate |-> l.log # <<>> /\ l.log[Len(l.log)].duplicate,
     was_full |-> l.log # <<>> /\ l.log[Len(l.log)].handled_len = _MAX_HANDLED_REQUEST_IDS]

\* no asynchronous counterpart is followed
NoTwin == [registry |-> NoRegistry, last |-> Idle, wait |-> NoWait, alike |-> TRUE]

Apply(op, arg, result) ==
    /\ registry' = result.registry
    /\ last' = Record(op, arg, result)
    /\ acked' = acked \cup Accepted(result.log)
    /\ UNCHANGED <<prev, facade, wait, twin, stream, skill, router, tasks>>

Init ==
    /\ \E n \in InitialOthers :
          registry = [skills |-> {SkillName},
                      handled_request_ids |-> [ids |-> {}, others |-> n],
                      dispatch_mode |-> NoDispatchMode,
                      catalog_locked |-> TRUE]
    /\ last = Idle
    /\ prev = Summary(Idle)
    /\ acked = {}
    /\ facade = NoFacade
    /\ wait = NoWait
    /\ twin = NoTwin
    /\ stream = NoStream
    /\ skill = NoSkill
    /\ router = NoRouter
    /\ tasks = NoTasks

RespondToSignal ==
    /\ last.op = "idle"
    /\ \E signal \in Signals, m \in SubmitAttemptArgs :
        \E result \in respond_to_signal(registry, SessionId, signal, m, FullEnv) :
            Apply("respond_to_signal", signal, result)

RespondToPendingCall ==
    /\ last.op = "idle"
    /\ \E pending_call \in PendingCalls, m \in SubmitAttemptArgs :
        \E result \in respond_to_pending_call(registry, SessionId, pending_call, m, FullEnv) :
            Apply("respond_to_pending_call", pending_call, result)

DrainPendingCalls ==
    /\ last.op = "idle"
    /\ \E payload \in Payloads, m \in DrainAttemptArgs :
        \E result \in drain_pending_calls(registry, SessionId, payload, m, DrainEnv) :
            Apply("drain_pending_calls", payload, result)

SendAndHandle ==
    /\ last.op = "idle"
    /\ \E args \in SendArgChoices :
        \E result \in send_and_handle(registry, SessionId, args, SendEnv) :
            Apply("send_and_handle", args, result)

\* send_and_handle, the iterations of its loop recorded in last.polls
SendAndHandleTraced ==
    /\ last.op = "idle"
    /\ \E args \in SendArgChoices :
        \E result \in send_and_handle(registry, SessionId, args, TracedSendEnv) :
            Apply("send_and_handle", args, result)

ResetDispatchMode ==
    /\ last.op = "idle"
    /\ Apply("reset_dispatch_mode", None,
             OpResult(reset_dispatch_mode(registry), <<>>, "None", <<>>, <<>>, <<>>))

Register ==
    /\ last.op = "idle"
    /\ \E name \in SkillNameArgs, sync_runtime \in BOOLEAN :
        Apply("register", StrVal(name), register(registry, name, sync_runtime))

Unregister ==
    /\ last.op = "idle"
    /\ \E name \in SkillNameArgs, sync_runtime \in BOOLEAN :
        Apply("unregister", StrVal(name), unregister(registry, name, sync_runtime))

Clear ==
    /\ last.op = "idle"
    /\ \E sync_runtime \in BOOLEAN : Apply("clear", None, clear(registry, sync_runtime))

\* the caller takes the result of the operation
Return ==
    /\ last.op # "idle"
    /\ last' = Idle
    /\ prev' = Summary(last)
    /\ UNCHANGED <<registry, acked, facade, wait, twin, stream, skill, router, tasks>>

Next ==
    \/ RespondToSignal
    \/ RespondToPendingCall
    \/ DrainPendingCalls
    \/ SendAndHandle
    \/ ResetDispatchMode
    \/ Register
    \/ Unregister
    \/ Clear
    \/ Return

Spec == Init /\ [][Next]_vars

\* send_and_handle alone on a session, its mode reset between calls
NextSend ==
    \/ SendAndHandleTraced
    \/ ResetDispatchMode
    \/ Return

SpecSend == Init /\ [][NextSend]_vars

-----------------------------------------------------------------------------
(* WaitApi (wait.py).  wait is the running call: wait.pc its position       *)
(* ("poll": about to poll, "sleep": about to sleep one interval, "returned" *)
(* and "raised": ended), wait.attempts the local attempts, wait.elapsed the *)
(* ticks of the monotonic clock since start, wait.polled the values polled  *)
(* so far, wait.checks the elapsed time read at each time check and          *)
(* wait.sleeps the number of interval sleeps.  A poll takes 0 or 1 tick, a  *)
(* sleep exactly interval_seconds.                                          *)

\* "None" or the ValueError raised
_validate_wait_args(timeout_seconds, interval_seconds, initial_delay_seconds, max_attempts) ==
    IF timeout_seconds <= 0 THEN "timeout_seconds_not_positive"
    ELSE IF interval_seconds <= 0 THEN "interval_seconds_not_positive"
    ELSE IF initial_delay_seconds < 0 THEN "initial_delay_seconds_negative"
    ELSE IF max_attempts # None /\ max_attempts.v <= 0 THEN "max_attempts_not_positive"
    ELSE "None"

\* the status of the turn in a session detail: the for loop from turn i on
RECURSIVE TurnStatusFrom(_, _, _)
TurnStatusFrom(turns, i, turn_id) ==
    IF i > Len(turns) THEN None
    ELSE LET turn == turns[i]
         IN  IF turn.t # "dict" THEN TurnStatusFrom(turns, i + 1, turn_id)
             ELSE IF turn.id # turn_id THEN TurnStatusFrom(turns, i + 1, turn_id)
             ELSE IF turn.status.t = "str" /\ strip(turn.status.v) # <<>>
             THEN StrVal(strip(turn.status.v))
             ELSE None

_turn_status(detail, turn_id) ==
    IF detail.t # "dict" THEN None
    ELSE IF detail.thread.t # "dict" THEN None
    ELSE IF detail.thread.turns.t # "list" THEN None
    ELSE TurnStatusFrom(detail.thread.turns.v, 1, turn_id)

_is_terminal_turn_status(status) ==
    lower(strip(status.v)) \in
        {<<"completed">>, <<"complete">>, <<"failed">>, <<"error">>,
         <<"interrupted">>, <<"canceled">>, <<"cancelled">>}

\* mutant: a terminal turn without reply is waited for like a running one
_reply_ready_TerminalWithoutReplyWaits(payload, turn_id) ==
    LET status == _turn_status(payload, turn_id)
        reply == _assistant_reply_for_turn(payload, turn_id)
    IN  IF status = None THEN (IF reply # None THEN "true" ELSE "false")
        ELSE IF _is_terminal_turn_status(status)
        THEN (IF reply # None THEN "true" ELSE "false")
        ELSE "false"

\* mutant: a reply is enough, whatever the status of the turn
_reply_ready_ReplySuffices(payload, turn_id) ==
    LET status == _turn_status(payload, turn_id)
        reply == _assistant_reply_for_turn(payload, turn_id)
    IN  IF reply # None THEN "true"
        ELSE IF status # None /\ _is_terminal_turn_status(status) THEN "raises"
        ELSE "false"

\* _reply_ready of assistant_reply: "true", "false" or "raises"
_reply_ready(payload, turn_id) ==
    LET status == _turn_status(payload, turn_id)
        reply == _assistant_reply_for_turn(payload, turn_id)
    IN  IF status = None THEN (IF reply # None THEN "true" ELSE "false")
        ELSE IF _is_terminal_turn_status(status)
        THEN (IF reply # None THEN "true" ELSE "raises")
        ELSE "false"

\* mutant: the predicate given is not used
check_PredicateIgnored(predicate, value, turn_id) ==
    IF predicate = "_reply_ready" THEN _reply_ready(value, turn_id)
    ELSE IF value # 0 THEN "true" ELSE "false"

\* check(value) of until: the predicate given, or the truth of the value
check(predicate, value, turn_id) ==
    CASE predicate = "None" -> (IF value # 0 THEN "true" ELSE "false")
      [] predicate = "is3" -> (IF value = 3 THEN "true" ELSE "false")
      [] predicate = "never" -> "false"
      [] predicate = "_reply_ready" -> _reply_ready(value, turn_id)

WaitArgs(predicate, timeout_seconds, interval_seconds, initial_delay_seconds, max_attempts, turn_id) ==
    [predicate |-> predicate, timeout_seconds |-> timeout_seconds,
     interval_seconds |-> interval_seconds, initial_delay_seconds |-> initial_delay_seconds,
     max_attempts |-> max_attempts, turn_id |-> turn_id]

\* until, up to the loop; the sleep of initial_delay_seconds ends before the
\* clock is read for start and is no interval sleep, so it leaves no trace
until(op, args) ==
    LET invalid == _validate_wait_args(args.timeout_seconds, args.interval_seconds,
                                       args.initial_delay_seconds, args.max_attempts)
    IN  IF invalid # "None"
        THEN [NoWait EXCEPT !.pc = "raised", !.op = op, !.args = args, !.raised = invalid]
        ELSE [NoWait EXCEPT !.pc = "poll", !.op = op, !.args = args]

SessionTurnReply(turn_id, detail, assistant_reply) ==
    [t |-> "reply", turn_id |-> turn_id, detail |-> detail, assistant_reply |-> assistant_reply]

\* what the caller of until does with the value returned; the values polled
\* for until are ints
Returned(w, value) ==
    IF w.op = "until" THEN [w EXCEPT !.pc = "returned", !.result = IntVal(value)]
    ELSE LET assistant_reply == _assistant_reply_for_turn(value, w.args.turn_id)
         IN  IF assistant_reply = None
             THEN [w EXCEPT !.pc = "raised", !.raised = "WaitTimeoutError_not_available"]
             ELSE [w EXCEPT !.pc = "returned",
                            !.result = SessionTurnReply(w.args.turn_id, value,
                                                        assistant_reply)]

\* mutant: the attempt cap allows one attempt more
Iteration_AttemptCapExclusive(w, value, delay) ==
    LET attempts == w.attempts + 1
        polled == [w EXCEPT !.attempts = attempts, !.polled = @ \o <<value>>,
                            !.elapsed = @ + delay]
        matched == check(w.args.predicate, value, w.args.turn_id)
    IN  IF matched = "raises"
        THEN [polled EXCEPT !.pc = "raised", !.raised = "WaitTimeoutError_without_reply"]
        ELSE IF matched = "true" THEN Returned(polled, value)
        ELSE IF w.args.max_attempts # None /\ attempts > w.args.max_attempts.v
        THEN [polled EXCEPT !.pc = "raised", !.raised = "WaitTimeoutError"]
        ELSE LET timed == [polled EXCEPT !.checks = @ \o <<polled.elapsed>>]
             IN  IF timed.elapsed >= w.args.timeout_seconds
                 THEN [timed EXCEPT !.pc = "raised", !.raised = "WaitTimeoutError"]
                 ELSE [timed EXCEPT !.pc = "sleep"]

\* one iteration of the loop of until, up to its sleep: value is what poll()
\* returns and delay the ticks the poll took
Iteration(w, value, delay) ==
    LET attempts == w.attempts + 1
        polled == [w EXCEPT !.attempts = attempts, !.polled = @ \o <<value>>,
                            !.elapsed = @ + delay]
        matched == check(w.args.predicate, value, w.args.turn_id)
    IN  IF matched = "raises"
        THEN [polled EXCEPT !.pc = "raised", !.raised = "WaitTimeoutError_without_reply"]
        ELSE IF matched = "true" THEN Returned(polled, value)
        ELSE IF w.args.max_attempts # None /\ attempts >= w.args.max_attempts.v
        THEN [polled EXCEPT !.pc = "raised", !.raised = "WaitTimeoutError"]
        ELSE LET timed == [polled EXCEPT !.checks = @ \o <<polled.elapsed>>]
             IN  IF timed.elapsed >= w.args.timeout_seconds
                 THEN [timed EXCEPT !.pc = "raised", !.raised = "WaitTimeoutError"]
                 ELSE [timed EXCEPT !.pc = "sleep"]

\* matched of AsyncWaitApi.until: bool(value) when predicate is None, else
\* what the predicate returns, awaited when it is awaitable
async_check(predicate, value, turn_id) ==
    IF predicate = "None" THEN (IF value # 0 THEN "true" ELSE "false")
    ELSE IF predicate = "is3" THEN (IF value = 3 THEN "true" ELSE "false")
    ELSE IF predicate = "never" THEN "false"
    ELSE _reply_ready(value, turn_id)

\* AsyncWaitApi.until, up to the loop
async_until(op, args) ==
    LET invalid == _validate_wait_args(args.timeout_seconds, args.interval_seconds,
                                       args.initial_delay_seconds, args.max_attempts)
    IN  IF invalid # "None"
        THEN [NoWait EXCEPT !.pc = "raised", !.op = op, !.args = args, !.raised = invalid]
        ELSE [NoWait EXCEPT !.pc = "poll", !.op = op, !.args = args]

\* mutant: the asynchronous loop tests the clock before the attempt cap
AsyncIteration_ClockBeforeCap(w, value, delay) ==
    LET attempts == w.attempts + 1
        polled == [w EXCEPT !.attempts = attempts, !.polled = @ \o <<value>>,
                            !.elapsed = @ + delay]
        matched == async_check(w.args.predicate, value, w.args.turn_id)
        timed == [polled EXCEPT !.checks = @ \o <<polled.elapsed>>]
    IN  IF matched = "raises"
        THEN [polled EXCEPT !.pc = "raised", !.raised = "WaitTimeoutError_without_reply"]
        ELSE IF matched = "true" THEN Returned(polled, value)
        ELSE IF timed.elapsed >= w.args.timeout_seconds
        THEN [timed EXCEPT !.pc = "raised", !.raised = "WaitTimeoutError"]
        ELSE IF w.args.max_attempts # None /\ attempts >= w.args.max_attempts.v
        THEN [timed EXCEPT !.pc = "raised", !.raised = "WaitTimeoutError"]
        ELSE [timed EXCEPT !.pc = "sleep"]

\* one iteration of the loop of AsyncWaitApi.until, up to its sleep
AsyncIteration(w, value, delay) ==
    LET attempts == w.attempts + 1
        polled == [w EXCEPT !.attempts = attempts, !.polled = @ \o <<value>>,
                            !.elapsed = @ + delay]
        matched == async_check(w.args.predicate, value, w.args.turn_id)
    IN  IF matched = "raises"
        THEN [polled EXCEPT !.pc = "raised", !.raised = "WaitTimeoutError_without_reply"]
        ELSE IF matched = "true" THEN Returned(polled, value)
        ELSE IF w.args.max_attempts # None /\ attempts >= w.args.max_attempts.v
        THEN [polled EXCEPT !.pc = "raised", !.raised = "WaitTimeoutError"]
        ELSE LET timed == [polled EXCEPT !.checks = @ \o <<polled.elapsed>>]
             IN  IF timed.elapsed >= w.args.timeout_seconds
                 THEN [timed EXCEPT !.pc = "raised", !.raised = "WaitTimeoutError"]
                 ELSE [timed EXCEPT !.pc = "sleep"]

-----------------------------------------------------------------------------
(* State machine of WaitApi.  The session and facade variables are not used. *)

\* values poll() returns to until
PolledValues == {0, 1, 3}

\* id of the turn waited for
TurnId == Word("t")

Turn(id, status) == [t |-> "dict", id |-> id, status |-> status]

\* a session detail with thread.turns and transcript
Snapshot(thread, transcript) == [t |-> "dict", thread |-> thread, transcript |-> transcript]

Thread(turns) == [t |-> "dict", turns |-> ListVal(turns)]

\* thread of a session detail: none, or the turn with a status
SnapshotThreads ==
    {None,
     Thread(<<Turn(Word("u"), Word("COMPLETED")), Turn(TurnId, Word("running"))>>),
     Thread(<<Turn(TurnId, StrVal(<<" ", "COMPLETED">>))>>),
     Thread(<<Turn(TurnId, StrVal(<<" ">>)), Turn(TurnId, Word("COMPLETED"))>>)}

\* transcript of a session detail: no complete assistant entry of the turn,
\* one, or two
SnapshotTranscripts ==
    {ListVal(<<Entry(Word("u"), Word("assistant"), Word("complete"), Word("other")),
               Entry(TurnId, Word("assistant"), Word("streaming"), Word("later"))>>),
     ListVal(<<Entry(TurnId, Word("assistant"), Word("complete"), StrVal(<<"hi", " ">>)),
               Entry(TurnId, Word("user"), Word("complete"), Word("thanks"))>>),
     ListVal(<<Entry(TurnId, Word("assistant"), Word("complete"), Word("old")),
               Entry(TurnId, Word("assistant"), Word("complete"), Word("new")),
               Entry(TurnId, Word("assistant"), Word("complete"), StrVal(<<" ">>))>>)}

\* what sessions.get returns to assistant_reply
Snapshots ==
    {Snapshot(thread, transcript) : thread \in SnapshotThreads,
                                    transcript \in SnapshotTranscripts}

\* ticks a poll takes
PollDelays == {0, 1}

UntilArgChoices ==
    {WaitArgs(predicate, timeout_seconds, interval_seconds, initial_delay_seconds,
              max_attempts, None) :
        predicate \in {"None", "is3", "never"},
        timeout_seconds \in {0, 1, MaxWait},
        interval_seconds \in {0, 1, 2},
        initial_delay_seconds \in {-1, 0, 1},
        max_attempts \in {None, IntVal(0), IntVal(1), IntVal(3)}}

AssistantReplyArgChoices ==
    {WaitArgs("_reply_ready", timeout_seconds, 1, 0, None, TurnId) :
        timeout_seconds \in {0, 1, 2}}

UnchangedButWait == UNCHANGED <<registry, last, prev, acked, facade, twin, stream, skill, router, tasks>>

InitWait ==
    /\ registry = NoRegistry
    /\ last = Idle
    /\ prev = Summary(Idle)
    /\ acked = {}
    /\ facade = NoFacade
    /\ wait = NoWait
    /\ twin = NoTwin
    /\ stream = NoStream
    /\ skill = NoSkill
    /\ router = NoRouter
    /\ tasks = NoTasks

Until ==
    /\ wait.pc = "idle"
    /\ \E args \in UntilArgChoices : wait' = until("until", args)
    /\ UnchangedButWait

AssistantReply ==
    /\ wait.pc = "idle"
    /\ \E args \in AssistantReplyArgChoices : wait' = until("assistant_reply", args)
    /\ UnchangedButWait

\* poll, check, and the two limits
Poll ==
    /\ wait.pc = "poll"
    /\ \E value \in IF wait.op = "until" THEN PolledValues ELSE Snapshots,
          delay \in PollDelays :
          wait' = Iteration(wait, value, delay)
    /\ UnchangedButWait

\* time.sleep(interval_seconds)
Sleep ==
    /\ wait.pc = "sleep"
    /\ wait' = [wait EXCEPT !.pc = "poll", !.sleeps = @ + 1,
                            !.elapsed = @ + wait.args.interval_seconds]
    /\ UnchangedButWait

\* the caller takes the value or the error
WaitReturn ==
    /\ wait.pc \in {"returned", "raised"}
    /\ wait' = [NoWait EXCEPT !.taken = IF wait.pc = "returned" THEN "value"
                                         ELSE wait.raised]
    /\ UnchangedButWait

NextWait ==
    \/ Until
    \/ AssistantReply
    \/ Poll
    \/ Sleep
    \/ WaitReturn

SpecWait == InitWait /\ [][NextWait]_vars

\* a call that started goes on: the thread running it is not stopped
SpecWaitFair == SpecWait /\ WF_vars(Poll) /\ WF_vars(Sleep)

-----------------------------------------------------------------------------
(* State machine of the facade.  The session variables are not used.        *)

\* the session id sessions.create hands out and the caller uses
FacadeSessionIds == {<<"s">>}

\* calls the register callback makes on the draft session
CallbackOps ==
    {CatalogOp("register", SkillName, FALSE),
     CatalogOp("register", <<" ", "q">>, FALSE),
     CatalogOp("unregister", SkillName, FALSE)}

\* calls made on a session's catalog
CatalogOps ==
    CallbackOps
        \cup {CatalogOp("register", <<" ">>, FALSE),
              CatalogOp("register", <<"q">>, TRUE),
              CatalogOp("unregister", <<"q">>, TRUE),
              CatalogOp("clear", <<>>, FALSE),
              CatalogOp("clear", <<>>, TRUE)}

\* register callbacks given to create_session
Callbacks ==
    {Absent}
        \cup {[ops |-> ops, awaitable |-> FALSE] :
                 ops \in UNION {[1..n -> CallbackOps] : n \in 0..MaxCallbackOps}}
        \cup {[ops |-> <<CatalogOp("register", SkillName, FALSE)>>, awaitable |-> TRUE]}

\* register(draft) for each callback: the draft registry is new in every
\* create_session, so the run of a callback depends on the callback alone
CallbackRuns ==
    [callback \in Callbacks |->
        IF callback = Absent THEN [registry |-> _SkillRegistry(FALSE), raised |-> "None"]
        ELSE RunCallback(_SkillRegistry(FALSE), callback.ops, 1)]

\* dynamic_tools passed by the caller in create_kwargs or in the send kwargs
KwargsTools == {Absent, Tools(<<[name |-> <<"z">>]>>)}

Created(sessionId) == [t |-> "dict", session |-> [t |-> "dict", sessionId |-> sessionId]]

\* what sessions.create answers
CreateResponses ==
    {[t |-> "raises"], Other, Created(StrVal(<<" ">>)), Created(StrVal(SessionId))}

\* RemoteSkillSession.send: the dynamic_tools passed to sessions.send_message
send(reg, kwargs_tools) ==
    IF kwargs_tools = Absent THEN Tools(_dynamic_tool_definitions(reg.skills))
    ELSE kwargs_tools

UnchangedSession == UNCHANGED <<registry, last, prev, acked, wait, twin, stream, skill, router, tasks>>

InitFacade ==
    /\ registry = NoRegistry
    /\ last = Idle
    /\ prev = Summary(Idle)
    /\ acked = {}
    /\ facade = NoFacade
    /\ wait = NoWait
    /\ twin = NoTwin
    /\ stream = NoStream
    /\ skill = NoSkill
    /\ router = NoRouter
    /\ tasks = NoTasks

CreateSession ==
    /\ \E callback \in Callbacks, kwargs_tools \in KwargsTools, created \in CreateResponses :
          facade' = create_session(facade, callback, kwargs_tools, CallbackRuns[callback],
                                   created)
    /\ UnchangedSession

Session ==
    /\ \E session_id \in FacadeSessionIds :
          facade' = [FacadeResult(facade, "session", session_id, "None", Absent)
                        EXCEPT !.registries = session(facade, session_id).registries]
    /\ UnchangedSession

\* close_session by a caller that has kept no handle of the session
CloseSession ==
    /\ \E session_id \in FacadeSessionIds, delete_session \in BOOLEAN,
          deleted \in {"raises", "returns"}, ignore_cleanup_errors \in BOOLEAN :
          facade' = [close_session(facade, session_id, delete_session, deleted,
                                   ignore_cleanup_errors)
                        EXCEPT !.retained = Absent, !.last.value = Absent]
    /\ UnchangedSession

\* lifecycle(): entering the context manager
LifecycleEnter ==
    /\ \E callback \in Callbacks, kwargs_tools \in KwargsTools,
          created \in CreateResponses, keep_session \in BOOLEAN :
          LET entered == create_session(facade, callback, kwargs_tools,
                                        CallbackRuns[callback], created)
          IN  facade' = [entered EXCEPT
                            !.last.op = "lifecycle",
                            !.lifecycles =
                                IF entered.last.raised = "None"
                                THEN @ \cup {[session_id |-> entered.last.session_id,
                                              keep_session |-> keep_session]}
                                ELSE @]
    /\ UnchangedSession

\* lifecycle(): leaving the context manager
LifecycleExit ==
    /\ \E lifecycle \in facade.lifecycles, deleted \in {"raises", "returns"},
          ignore_cleanup_errors \in BOOLEAN :
          LET closed == close_session(facade, lifecycle.session_id, ~lifecycle.keep_session,
                                      deleted, ignore_cleanup_errors)
          IN  facade' = [closed EXCEPT !.last.op = "lifecycle_exit",
                                       !.last.value = Absent,
                                       !.retained = Absent,
                                       !.lifecycles = @ \ {lifecycle}]
    /\ UnchangedSession

\* register / unregister / clear on a bound session
BoundCatalogCall ==
    /\ \E session_id \in DOMAIN facade.registries, op \in CatalogOps :
          LET r == ApplyCatalogOp(facade.registries[session_id], op)
          IN  facade' = [FacadeResult(facade, op.kind, session_id, r.raised, Absent)
                            EXCEPT !.registries[session_id] = r.registry,
                                   !.last.target = "bound"]
    /\ UnchangedSession

\* ... on the draft session kept by the register callback
DraftCatalogCall ==
    /\ facade.draft # Absent
    /\ \E op \in CatalogOps :
          LET r == ApplyCatalogOp(facade.draft, op)
          IN  facade' = [FacadeResult(facade, op.kind, None, r.raised, op)
                            EXCEPT !.draft = r.registry,
                                   !.last.target = "draft"]
    /\ UnchangedSession

\* a tool-call signal is answered through a bound session
BoundRespondToSignal ==
    /\ \E session_id \in DOMAIN facade.registries :
          \E r \in respond_to_signal(
                      facade.registries[session_id], session_id,
                      Signal(TOOL_CALL_EVENT, StrVal(SkillName), IntVal(1), None, None),
                      1, [handler_results |-> {"returns"},
                          respond_results |-> {Response(Dict(Word("ok"), None))}]) :
              facade' = [FacadeResult(facade, "respond_to_signal", session_id, r.raised, Absent)
                            EXCEPT !.registries[session_id] = r.registry,
                                   !.last.target = "bound"]
    /\ UnchangedSession

\* a tool call is dispatched, or a catalog call made, through the handle
\* retained of a closed session
RetainedCall ==
    /\ facade.retained # Absent
    /\ \/ \E handler_result \in {"returns", "raises"} :
              facade' = [FacadeResult(facade, "dispatch_tool_call", facade.retained.session_id,
                                      "None",
                                      dispatch_tool_call(facade.retained.registry.skills,
                                                         SkillName, IntVal(1), handler_result))
                            EXCEPT !.last.target = "retained"]
       \/ \E op \in CatalogOps :
              LET r == ApplyCatalogOp(facade.retained.registry, op)
              IN  facade' = [FacadeResult(facade, op.kind, facade.retained.session_id,
                                          r.raised, Absent)
                                EXCEPT !.retained.registry = r.registry,
                                       !.last.target = "retained"]
    /\ UnchangedSession

\* a message is sent through a bound session
BoundSend ==
    /\ \E session_id \in DOMAIN facade.registries, kwargs_tools \in KwargsTools :
          facade' = [FacadeResult(facade, "send", session_id, "None",
                                  [passed |-> send(facade.registries[session_id], kwargs_tools),
                                   kwargs_tools |-> kwargs_tools])
                        EXCEPT !.last.target = "bound"]
    /\ UnchangedSession

NextFacade ==
    \/ CreateSession
    \/ Session
    \/ CloseSession
    \/ LifecycleEnter
    \/ LifecycleExit
    \/ BoundCatalogCall
    \/ DraftCatalogCall
    \/ BoundRespondToSignal
    \/ BoundSend

SpecFacade == InitFacade /\ [][NextFacade]_vars

\* close_session by a caller that goes on holding the session handle
CloseSessionRetained ==
    /\ \E session_id \in FacadeSessionIds, delete_session \in BOOLEAN,
          deleted \in {"raises", "returns"}, ignore_cleanup_errors \in BOOLEAN :
          facade' = close_session(facade, session_id, delete_session, deleted,
                                  ignore_cleanup_errors)
    /\ UnchangedSession

\* sessions are created, bound, used and closed while their handles are kept
NextClose ==
    \/ CreateSession
    \/ Session
    \/ BoundRespondToSignal
    \/ CloseSessionRetained
    \/ RetainedCall

SpecClose == InitFacade /\ [][NextClose]_vars

-----------------------------------------------------------------------------
(* State machine of the two variants side by side.  Every operation is      *)
(* given to a RemoteSkillSession (registry, last) and to an                  *)
(* AsyncRemoteSkillSession (twin.registry, twin.last) that started with the  *)
(* same registry, with handlers that return no awaitable and a remote side   *)
(* that answers both alike; an until is given to WaitApi (wait) and to       *)
(* AsyncWaitApi (twin.wait) with the same polled values and clock.           *)

\* the environment without handlers that return awaitables
NonAwaitable(env) == [env EXCEPT !.handler_results = @ \ {"awaitable"}]

\* the environment of a signal or pending call given to both: a respond call
\* fails in transport, is accepted, is answered in flight, or is rejected
BothEnv ==
    [NonAwaitable(FullEnv) EXCEPT
        !.respond_results = {TransportException,
                             Response(Dict(Word("ok"), None)),
                             Response(Dict(Word("conflict"), Word("in_flight"))),
                             Response(Dict(Word("error"), Word("busy")))}]

\* what the asynchronous session did, for a remote side that answered it as
\* it answered the synchronous one: the outcome with the same record of
\* answers among those the asynchronous method can produce
Counterpart(result, async) ==
    IF result \in async THEN result
    ELSE OpResult(twin.registry, <<>>, "unmatched", <<>>, <<>>, <<>>)

\* the operation is run by both sessions: sync and async are the outcomes
\* the two methods can produce from their registries (prev and acked are
\* not kept here)
Both(op, arg, sync, async) ==
    \E result \in sync :
        LET aresult == Counterpart(result, async)
        IN  /\ registry' = result.registry
            /\ last' = Record(op, arg, result)
            /\ twin' = [twin EXCEPT !.registry = aresult.registry,
                                    !.last = [Record(op, arg, aresult)
                                                 EXCEPT !.before = twin.registry],
                                    !.alike = (async = sync)]
            /\ UNCHANGED <<prev, acked, facade, wait, stream, skill, router, tasks>>

\* signals, pending calls and listings given to both sessions
BothSignals ==
    {Signal(TOOL_CALL_EVENT, tool, request_id, None, None) :
        tool \in {StrVal(SkillName), StrVal(<<"q">>)},
        request_id \in {None, IntVal(1), StrVal(<<" ", "1">>)}}
    \cup {Signal("other.event", StrVal(SkillName), IntVal(1), None, None)}

BothPendingCalls ==
    {PendingCall(request_id, StrVal(SkillName), None) : request_id \in {IntVal(1), IntVal(2)}}

BothPayloads ==
    {Payload(ListVal(<<>>), None, None),
     Payload(ListVal(<<PendingCall(IntVal(1), StrVal(SkillName), None),
                       PendingCall(IntVal(2), StrVal(<<"q">>), None)>>), None, None),
     Other}

\* calls of send_and_handle given to both sessions
BothSendArgChoices ==
    {SendArgs(1, 1, None, FALSE),
     SendArgs(1, 1, StrVal(<<" ", "Done">>), TRUE),
     SendArgs(0, 1, None, FALSE)}

\* calls of until given to both wait APIs
BothUntilArgChoices ==
    {WaitArgs(predicate, timeout_seconds, 1, 0, max_attempts, None) :
        predicate \in {"None", "is3", "never"},
        timeout_seconds \in {0, 2},
        max_attempts \in {None, IntVal(2)}}

NoCallRunning == last.op = "idle" /\ wait.pc = "idle" /\ twin.wait.pc = "idle"

InitBoth ==
    /\ \E n \in InitialOthers :
          registry = [skills |-> {SkillName},
                      handled_request_ids |-> [ids |-> {}, others |-> n],
                      dispatch_mode |-> NoDispatchMode,
                      catalog_locked |-> TRUE]
    /\ last = Idle
    /\ prev = Summary(Idle)
    /\ acked = {}
    /\ facade = NoFacade
    /\ wait = NoWait
    /\ twin = [NoTwin EXCEPT !.registry = registry]
    /\ stream = NoStream
    /\ skill = NoSkill
    /\ router = NoRouter
    /\ tasks = NoTasks

RespondToSignalBoth ==
    /\ NoCallRunning
    /\ \E signal \in BothSignals, m \in SubmitAttemptArgs :
          Both("respond_to_signal", signal,
               respond_to_signal(registry, SessionId, signal, m, BothEnv),
               respond_to_signal(twin.registry, SessionId, signal, m, AsyncEnv(BothEnv)))

RespondToPendingCallBoth ==
    /\ NoCallRunning
    /\ \E pending_call \in BothPendingCalls, m \in SubmitAttemptArgs :
          Both("respond_to_pending_call", pending_call,
               respond_to_pending_call(registry, SessionId, pending_call, m, BothEnv),
               respond_to_pending_call(twin.registry, SessionId, pending_call, m,
                                       AsyncEnv(BothEnv)))

DrainPendingCallsBoth ==
    /\ NoCallRunning
    /\ \E payload \in BothPayloads, m \in DrainAttemptArgs :
          Both("drain_pending_calls", payload,
               drain_pending_calls(registry, SessionId, payload, m, DrainEnv),
               drain_pending_calls(twin.registry, SessionId, payload, m, AsyncEnv(DrainEnv)))

SendAndHandleBoth ==
    /\ NoCallRunning
    /\ \E args \in BothSendArgChoices :
          Both("send_and_handle", args,
               send_and_handle(registry, SessionId, args, TracedSendEnv),
               send_and_handle(twin.registry, SessionId, args, AsyncEnv(TracedSendEnv)))

ResetDispatchModeBoth ==
    /\ NoCallRunning
    /\ Both("reset_dispatch_mode", None,
            {OpResult(reset_dispatch_mode(registry), <<>>, "None", <<>>, <<>>, <<>>)},
            {OpResult(reset_dispatch_mode(twin.registry), <<>>, "None", <<>>, <<>>, <<>>)})

\* both callers take their results
ReturnBoth ==
    /\ last.op # "idle"
    /\ last' = Idle
    /\ twin' = [twin EXCEPT !.last = Idle]
    /\ UNCHANGED <<registry, prev, acked, facade, wait, stream, skill, router, tasks>>

UntilBoth ==
    /\ NoCallRunning
    /\ \E args \in BothUntilArgChoices :
          /\ wait' = until("until", args)
          /\ twin' = [twin EXCEPT !.wait = async_until("until", args)]
    /\ UNCHANGED <<registry, last, prev, acked, facade, stream, skill, router, tasks>>

\* poll() returns the same value to both after the same time
PollBoth ==
    /\ wait.pc = "poll" \/ twin.wait.pc = "poll"
    /\ \E value \in PolledValues, delay \in PollDelays :
          /\ wait' = IF wait.pc = "poll" THEN Iteration(wait, value, delay) ELSE wait
          /\ twin' = IF twin.wait.pc = "poll"
                     THEN [twin EXCEPT !.wait = AsyncIteration(twin.wait, value, delay)]
                     ELSE twin
    /\ UNCHANGED <<registry, last, prev, acked, facade, stream, skill, router, tasks>>

\* time.sleep and asyncio.sleep of interval_seconds
SleepBoth ==
    /\ wait.pc = "sleep" \/ twin.wait.pc = "sleep"
    /\ wait' = IF wait.pc = "sleep"
               THEN [wait EXCEPT !.pc = "poll", !.sleeps = @ + 1,
                                 !.elapsed = @ + wait.args.interval_seconds]
               ELSE wait
    /\ twin' = IF twin.wait.pc = "sleep"
               THEN [twin EXCEPT !.wait.pc = "poll", !.wait.sleeps = @ + 1,
                                 !.wait.elapsed = @ + twin.wait.args.interval_seconds]
               ELSE twin
    /\ UNCHANGED <<registry, last, prev, acked, facade, stream, skill, router, tasks>>

WaitReturnBoth ==
    /\ wait.pc \in {"returned", "raised"}
    /\ twin.wait.pc \in {"returned", "raised"}
    /\ wait' = [NoWait EXCEPT !.taken = IF wait.pc = "returned" THEN "value"
                                         ELSE wait.raised]
    /\ twin' = [twin EXCEPT !.wait = [NoWait EXCEPT !.taken = IF twin.wait.pc = "returned"
                                                               THEN "value"
                                                               ELSE twin.wait.raised]]
    /\ UNCHANGED <<registry, last, prev, acked, facade, stream, skill, router, tasks>>

NextBoth ==
    \/ RespondToSignalBoth
    \/ RespondToPendingCallBoth
    \/ DrainPendingCallsBoth
    \/ SendAndHandleBoth
    \/ ResetDispatchModeBoth
    \/ ReturnBoth
    \/ UntilBoth
    \/ PollBoth
    \/ SleepBoth
    \/ WaitReturnBoth

SpecBoth == InitBoth /\ [][NextBoth]_vars

-----------------------------------------------------------------------------
(* AsyncEventStream.run_forever (stream.py).  stream.pc is where the task   *)
(* stands: "top" and "conn_top" are the heads of the while loops of         *)
(* run_forever and _run_connection, the other positions are the awaits at   *)
(* which the task is suspended.  stream.stop_event is "None" when no event  *)
(* was given, else "clear" or "set"; stream.cancelling says that the task   *)
(* was cancelled and CancelledError is about to be raised at its await,     *)
(* stream.delivered that it was raised there; stream.checked that the head  *)
(* of the receive loop found stop_event not set in this iteration.  Other   *)
(* tasks run, set stop_event or cancel, only while this one is suspended.   *)

\* the awaits: websockets.connect, the subscribe and ping sends, recv,
\* router.dispatch, the exit of the async with, and the reconnect sleep
Awaits == {"connect", "subscribe", "ping", "recv", "dispatch", "close", "backoff"}

\* mutant: a cancellation is handled like a failed connection
run_forever_except_CancelledIsFailure(s, error) ==
    [s EXCEPT !.pc = "backoff", !.open = FALSE, !.checked = FALSE,
              !.reconnect_count = @ + 1]

\* the except clauses of run_forever for an error raised inside its try
run_forever_except(s, error) ==
    IF error = "CancelledError"
    THEN [s EXCEPT !.pc = "cancelled", !.open = FALSE, !.checked = FALSE,
                   !.raised = "CancelledError"]
    ELSE [s EXCEPT !.pc = "backoff", !.open = FALSE, !.checked = FALSE,
                   !.reconnect_count = @ + 1]

\* mutant: the loop connects without looking at stop_event
run_forever_top_NoStopCheck(s) == [s EXCEPT !.pc = "connect"]

\* head of the loop of run_forever: the stop check, then the connect call
run_forever_top(s) ==
    IF s.stop_event = "set" THEN [s EXCEPT !.pc = "returned"]
    ELSE [s EXCEPT !.pc = "connect"]

\* head of the loop of _run_connection: the stop check, a ping when one is
\* due, then the receive
_run_connection_top(s, ping_due) ==
    IF s.stop_event = "set" THEN [s EXCEPT !.pc = "close", !.reconnect_count = 0]
    ELSE IF ping_due THEN [s EXCEPT !.pc = "ping", !.checked = TRUE]
    ELSE [s EXCEPT !.pc = "recv", !.checked = TRUE]

\* what follows a receive: nothing received in time, a frame that is no
\* text, no JSON or no object is skipped, an event is dispatched, a closed
\* connection is an error
_run_connection_received(s, raw) ==
    IF raw = "closed" THEN run_forever_except(s, "Exception")
    ELSE IF raw = "event" THEN [s EXCEPT !.pc = "dispatch", !.checked = FALSE]
    ELSE [s EXCEPT !.pc = "conn_top", !.checked = FALSE]

-----------------------------------------------------------------------------
(* State machine of the event stream.  The other variables are not used.    *)

\* longest run of failed connections the remote side causes in a row
MaxReconnects == 2

Received == {"timeout", "bytes", "malformed", "not_dict", "event", "closed"}

UnchangedButStream == UNCHANGED <<registry, last, prev, acked, facade, wait, twin, skill, router, tasks>>

\* the remote side may cause (another) failure
MayFail == stream.reconnect_count < MaxReconnects

\* the await the task is suspended at ends normally
Proceeds(at) == stream.pc = at /\ ~stream.cancelling

InitStream ==
    /\ registry = NoRegistry
    /\ last = Idle
    /\ prev = Summary(Idle)
    /\ acked = {}
    /\ facade = NoFacade
    /\ wait = NoWait
    /\ twin = NoTwin
    /\ stream = NoStream
    /\ skill = NoSkill
    /\ router = NoRouter
    /\ tasks = NoTasks

RunForever ==
    /\ stream.pc = "idle"
    /\ \E stop_event \in {"None", "clear", "set"}, thread_id \in BOOLEAN :
          stream' = [NoStream EXCEPT !.pc = "top", !.stop_event = stop_event,
                                     !.thread_id = thread_id]
    /\ UnchangedButStream

Top ==
    /\ stream.pc = "top"
    /\ stream' = run_forever_top(stream)
    /\ UnchangedButStream

Connect ==
    /\ Proceeds("connect")
    /\ \/ stream' = [stream EXCEPT !.open = TRUE,
                                   !.pc = IF stream.thread_id THEN "subscribe"
                                          ELSE "conn_top"]
       \/ MayFail /\ stream' = run_forever_except(stream, "Exception")
    /\ UnchangedButStream

Subscribe ==
    /\ Proceeds("subscribe")
    /\ \/ stream' = [stream EXCEPT !.pc = "conn_top"]
       \/ MayFail /\ stream' = run_forever_except(stream, "Exception")
    /\ UnchangedButStream

ConnectionTop ==
    /\ stream.pc = "conn_top"
    /\ \E ping_due \in BOOLEAN : stream' = _run_connection_top(stream, ping_due)
    /\ UnchangedButStream

Ping ==
    /\ Proceeds("ping")
    /\ \/ stream' = [stream EXCEPT !.pc = "recv"]
       \/ MayFail /\ stream' = run_forever_except(stream, "Exception")
    /\ UnchangedButStream

Receive ==
    /\ Proceeds("recv")
    /\ \E raw \in Received :
          /\ raw = "closed" => MayFail
          /\ stream' = _run_connection_received(stream, raw)
    /\ UnchangedButStream

\* the handlers return; a router that lets an error through fails the
\* connection
Dispatch ==
    /\ Proceeds("dispatch")
    /\ \/ stream' = [stream EXCEPT !.pc = "conn_top"]
       \/ MayFail /\ stream' = run_forever_except(stream, "Exception")
    /\ UnchangedButStream

\* _run_connection returned and the connection is closed
Close ==
    /\ Proceeds("close")
    /\ stream' = [stream EXCEPT !.pc = "top", !.open = FALSE]
    /\ UnchangedButStream

\* the reconnect sleep ends
Backoff ==
    /\ Proceeds("backoff")
    /\ stream' = [stream EXCEPT !.pc = "top"]
    /\ UnchangedButStream

\* another task sets stop_event
SetStop ==
    /\ stream.pc \in Awaits
    /\ stream.stop_event = "clear"
    /\ stream' = [stream EXCEPT !.stop_event = "set"]
    /\ UnchangedButStream

\* another task cancels the task running run_forever
Cancel ==
    /\ stream.pc \in Awaits
    /\ ~stream.cancelling
    /\ ~stream.delivered
    /\ stream' = [stream EXCEPT !.cancelling = TRUE]
    /\ UnchangedButStream

\* CancelledError is raised at the await: inside the try of run_forever, or
\* at the reconnect sleep, which is outside it
DeliverCancel ==
    /\ stream.pc \in Awaits
    /\ stream.cancelling
    /\ stream' = [(IF stream.pc = "backoff"
                   THEN [stream EXCEPT !.pc = "cancelled", !.raised = "CancelledError"]
                   ELSE run_forever_except(stream, "CancelledError"))
                     EXCEPT !.cancelling = FALSE, !.delivered = TRUE]
    /\ UnchangedButStream

\* the steps of the task itself
StreamStep ==
    \/ Top
    \/ Connect
    \/ Subscribe
    \/ ConnectionTop
    \/ Ping
    \/ Receive
    \/ Dispatch
    \/ Close
    \/ Backoff
    \/ DeliverCancel

NextStream ==
    \/ RunForever
    \/ StreamStep
    \/ SetStop
    \/ Cancel

SpecStream == InitStream /\ [][NextStream]_vars

\* the event loop keeps running the task, and every await ends: receives
\* time out, connects and sends end or fail, handlers return
SpecStreamFair == SpecStream /\ WF_vars(StreamStep)

-----------------------------------------------------------------------------
(* Input schema of a registered skill (remote_skills.py,                    *)
(* _schema_enriched_with_docstrings).  A schema is a dict of which the keys *)
(* "description" and "properties" are kept; Absent is a key the dict does   *)
(* not have.  The value of "properties", when it is a dict, maps property   *)
(* names to property schemas, of which the key "description" is kept.       *)

\* dict.get(key)
get(value) == IF value = Absent THEN None ELSE value

PropertySchema(description) == [t |-> "dict", description |-> description]

Properties(items) == [t |-> "dict", items |-> items]

Schema(description, properties) ==
    [t |-> "dict", description |-> description, properties |-> properties]

\* d[key] = value
Put(d, key, value) == [k \in DOMAIN d \cup {key} |-> IF k = key THEN value ELSE d[k]]

\* a handler: whether inspect.signature succeeds, the names of the
\* parameters it finds (none of them *args or **kwargs), and the parsed
\* documentation comment, None when the handler has none or it cannot be
\* parsed
Handler(signature, parameters, doc) ==
    [signature |-> signature, parameters |-> parameters, doc |-> doc]

Docstring(short_description, long_description, params) ==
    [short_description |-> short_description, long_description |-> long_description,
     params |-> params]

DocstringParam(arg_name, description) == [arg_name |-> arg_name, description |-> description]

_schema_inferred_from_handler(handler) ==
    IF handler.signature = "error" THEN None
    ELSE Schema(Absent, Properties([name \in handler.parameters |-> PropertySchema(Absent)]))

\* "\n\n".join(summary_parts)
RECURSIVE join(_)
join(parts) ==
    IF Len(parts) = 1 THEN Head(parts) ELSE Head(parts) \o <<"\n\n">> \o join(Tail(parts))

\* isinstance(value, str) and value.strip()
IsText(value) == value.t = "str" /\ strip(value.v) # <<>>

\* the loop over parsed.params
RECURSIVE param_descriptions_from(_, _)
param_descriptions_from(params, param_descriptions) ==
    IF params = <<>> THEN param_descriptions
    ELSE LET param == Head(params)
         IN  param_descriptions_from(Tail(params),
                 IF IsText(param.arg_name) /\ IsText(param.description)
                 THEN Put(param_descriptions, strip(param.arg_name.v),
                          StrVal(strip(param.description.v)))
                 ELSE param_descriptions)

\* schema_description and param_descriptions of the handler's documentation
_docstring_enrichment(handler) ==
    IF handler.doc = None
    THEN [schema_description |-> None, param_descriptions |-> <<>>]
    ELSE LET parsed == handler.doc
             summary_parts ==
                 (IF IsText(parsed.short_description)
                  THEN <<strip(parsed.short_description.v)>> ELSE <<>>)
                 \o (IF IsText(parsed.long_description)
                     THEN <<strip(parsed.long_description.v)>> ELSE <<>>)
         IN  [schema_description |->
                  IF summary_parts # <<>> THEN StrVal(join(summary_parts)) ELSE None,
              param_descriptions |-> param_descriptions_from(parsed.params, <<>>)]

\* mutant: a described parameter is added to an explicit schema as well
enrich_property_ExplicitInjected(items, name, description, explicit_schema) ==
    LET property_schema == IF name \in DOMAIN items THEN items[name] ELSE None
    IN  IF property_schema.t # "dict"
        THEN Put(items, name, PropertySchema(description))
        ELSE IF IsText(get(property_schema.description)) THEN items
        ELSE Put(items, name, [property_schema EXCEPT !.description = description])

\* one iteration of the loop over param_descriptions.items()
enrich_property(items, name, description, explicit_schema) ==
    LET property_schema == IF name \in DOMAIN items THEN items[name] ELSE None
    IN  IF property_schema.t # "dict"
        THEN IF explicit_schema THEN items
             ELSE Put(items, name, PropertySchema(description))
        ELSE IF IsText(get(property_schema.description)) THEN items
        ELSE Put(items, name, [property_schema EXCEPT !.description = description])

\* the loop over param_descriptions.items(), names still to visit
RECURSIVE enrich_properties(_, _, _, _)
enrich_properties(items, names, param_descriptions, explicit_schema) ==
    IF names = {} THEN items
    ELSE LET name == CHOOSE n \in names : TRUE
         IN  enrich_properties(
                 enrich_property(items, name, param_descriptions[name], explicit_schema),
                 names \ {name}, param_descriptions, explicit_schema)

_schema_enriched_with_docstrings(handler, input_schema) ==
    LET explicit_schema == input_schema.t = "dict"
        schema == IF explicit_schema THEN input_schema
                  ELSE _schema_inferred_from_handler(handler)
        docs == _docstring_enrichment(handler)
        described ==
            IF docs.schema_description # None /\ ~IsText(get(schema.description))
            THEN [schema EXCEPT !.description = docs.schema_description]
            ELSE schema
        properties == get(schema.properties)
    IN  IF schema.t # "dict" THEN None
        ELSE IF properties.t = "dict"
        THEN [described EXCEPT !.properties =
                 Properties(enrich_properties(properties.items,
                                              DOMAIN docs.param_descriptions,
                                              docs.param_descriptions, explicit_schema))]
        ELSE described

-----------------------------------------------------------------------------
(* State machine of skill registration: skill holds the handler and the    *)
(* input schema a register call is made with and, once it is made, the     *)
(* input_schema of the RemoteSkill it stored.  What register stores does   *)
(* not depend on what was registered before, so one call is followed from  *)
(* every handler and schema.  The other variables are not used.            *)

PropertyNames == {<<"a">>, <<"b">>}

\* values of "description": missing, blank, a text, not a string
DescriptionChoices == {Absent, StrVal(<<" ">>), StrVal(<<"given">>), Other}

\* property schemas: dicts, and a value that is no dict
PropertySchemaChoices ==
    {PropertySchema(Absent), PropertySchema(StrVal(<<" ">>)),
     PropertySchema(StrVal(<<"given">>)), Other}

PropertiesChoices ==
    {Absent, Other}
    \cup {Properties(items) :
            items \in UNION {[names -> PropertySchemaChoices] : names \in SUBSET PropertyNames}}

\* the input_schema argument: not given, no dict, a dict
InputSchemaChoices ==
    {None, Other}
    \cup {Schema(description, properties) :
            description \in DescriptionChoices, properties \in PropertiesChoices}

\* the params of a documentation comment: names with and without
\* surrounding blanks, a blank name, blank and missing descriptions, a
\* parameter described twice
ParamsChoices ==
    {<<>>,
     <<DocstringParam(StrVal(<<"a">>), StrVal(<<"first">>))>>,
     <<DocstringParam(StrVal(<<"a">>), StrVal(<<"first">>)),
       DocstringParam(StrVal(<<" ", "b">>), StrVal(<<" ", "second", " ">>))>>,
     <<DocstringParam(StrVal(<<"b">>), StrVal(<<"second">>)),
       DocstringParam(StrVal(<<"a">>), StrVal(<<" ">>))>>,
     <<DocstringParam(StrVal(<<"b">>), StrVal(<<"second">>)),
       DocstringParam(StrVal(<<"b">>), StrVal(<<"again">>))>>,
     <<DocstringParam(StrVal(<<" ">>), StrVal(<<"first">>)),
       DocstringParam(None, StrVal(<<"first">>)),
       DocstringParam(StrVal(<<"a">>), None)>>}

DocChoices ==
    {None}
    \cup {Docstring(short_description, long_description, params) :
            short_description \in {None, StrVal(<<" ">>), StrVal(<<"Runs", " ">>)},
            long_description \in {None, StrVal(<<"More">>)},
            params \in ParamsChoices}

HandlerChoices ==
    {Handler("error", {}, doc) : doc \in DocChoices}
    \cup {Handler("ok", parameters, doc) :
            parameters \in {{}, {<<"a">>}, PropertyNames}, doc \in DocChoices}

UnchangedButSkill ==
    UNCHANGED <<registry, last, prev, acked, facade, wait, twin, stream, router, tasks>>

InitSchema ==
    /\ registry = NoRegistry
    /\ last = Idle
    /\ prev = Summary(Idle)
    /\ acked = {}
    /\ facade = NoFacade
    /\ wait = NoWait
    /\ twin = NoTwin
    /\ stream = NoStream
    /\ \E handler \in HandlerChoices, input_schema \in InputSchemaChoices :
          skill = [NoSkill EXCEPT !.handler = handler, !.input_schema = input_schema]
    /\ router = NoRouter
    /\ tasks = NoTasks

\* register(name, handler, input_schema=...) on a session whose catalog
\* is not locked
RegisterSkill ==
    /\ skill.pc = "idle"
    /\ _require_catalog_mutation_allowed(registry) = "None"
    /\ skill' = [skill EXCEPT !.pc = "registered",
                              !.stored = _schema_enriched_with_docstrings(
                                             skill.handler, skill.input_schema)]
    /\ UnchangedButSkill

NextSchema == RegisterSkill

SpecSchema == InitSchema /\ [][NextSchema]_vars

-----------------------------------------------------------------------------
(* EventRouter.dispatch (stream.py).  A route is a matcher and a handler;   *)
(* what each does when called is given with the route: the matcher answers  *)
(* "true" or "false" or "raises", the handler "returns" or "raises" (an     *)
(* Exception, when called or when its awaitable is awaited).  The error     *)
(* callback on_handler_error is "None" when none was given, else "returns"  *)
(* or "raises".  router.seen records, in order, which handlers and which    *)
(* error callbacks were called, with the index of the route.                *)

Route(matcher, handler) == [matcher |-> matcher, handler |-> handler]

Called(kind, route) == [kind |-> kind, route |-> route]

\* mutant: a handler's exception leaves the loop
dispatch_route_HandlerErrorPropagates(r, route) ==
    IF route.matcher = "raises"
    THEN [r EXCEPT !.pc = "raised", !.raised = "matcher error"]
    ELSE IF route.matcher = "false"
    THEN [r EXCEPT !.index = @ + 1]
    ELSE IF route.handler = "returns"
    THEN [r EXCEPT !.index = @ + 1, !.seen = @ \o <<Called("handler", r.index)>>]
    ELSE [r EXCEPT !.pc = "raised", !.raised = "handler error",
                   !.seen = @ \o <<Called("handler", r.index)>>]

\* one iteration of the loop over self._routes, for the route at r.index:
\* the matcher is called outside the try, the handler and the error
\* callback inside
dispatch_route(r, route) ==
    IF route.matcher = "raises"
    THEN [r EXCEPT !.pc = "raised", !.raised = "matcher error"]
    ELSE IF route.matcher = "false"
    THEN [r EXCEPT !.index = @ + 1]
    ELSE IF route.handler = "returns"
    THEN [r EXCEPT !.index = @ + 1, !.seen = @ \o <<Called("handler", r.index)>>]
    ELSE IF r.on_handler_error = "None"
    THEN [r EXCEPT !.index = @ + 1, !.seen = @ \o <<Called("handler", r.index)>>]
    ELSE [r EXCEPT !.index = @ + 1,
                   !.seen = @ \o <<Called("handler", r.index), Called("error", r.index)>>]

-----------------------------------------------------------------------------
(* State machine of the router.  The other variables are not used.          *)

\* longest list of routes
MaxRoutes == 2

Routes == {Route(matcher, handler) : matcher \in {"true", "false", "raises"},
                                    handler \in {"returns", "raises"}}

RouteLists == UNION {[1..n -> Routes] : n \in 0..MaxRoutes}

UnchangedButRouter ==
    UNCHANGED <<registry, last, prev, acked, facade, wait, twin, stream, skill, tasks>>

InitRouter ==
    /\ registry = NoRegistry
    /\ last = Idle
    /\ prev = Summary(Idle)
    /\ acked = {}
    /\ facade = NoFacade
    /\ wait = NoWait
    /\ twin = NoTwin
    /\ stream = NoStream
    /\ skill = NoSkill
    /\ router = NoRouter
    /\ tasks = NoTasks

\* dispatch(event, context) on a router with the routes added so far
RouterDispatch ==
    /\ router.pc = "idle"
    /\ \E routes \in RouteLists, on_handler_error \in {"None", "returns", "raises"} :
          router' = [NoRouter EXCEPT !.pc = "loop", !.routes = routes,
                                     !.on_handler_error = on_handler_error, !.index = 1]
    /\ UnchangedButRouter

\* the next route, or the end of the loop
RouterStep ==
    /\ router.pc = "loop"
    /\ router' = IF router.index > Len(router.routes)
                 THEN [router EXCEPT !.pc = "returned"]
                 ELSE dispatch_route(router, router.routes[router.index])
    /\ UnchangedButRouter

\* the caller of dispatch goes on
RouterReturn ==
    /\ router.pc \in {"returned", "raised"}
    /\ router' = NoRouter
    /\ UnchangedButRouter

NextRouter ==
    \/ RouterDispatch
    \/ RouterStep
    \/ RouterReturn

SpecRouter == InitRouter /\ [][NextRouter]_vars

-----------------------------------------------------------------------------
(* AsyncRemoteSkillSession under concurrent tasks.  A task runs without    *)
(* interruption from one await that suspends to the next: the listing      *)
(* fetch, an asynchronous handler, tool_calls.respond and the retry sleep. *)
(* The deliveries carry a tool that is registered and a usable request id. *)

\* request ids the remote side delivers
TaskRequestIds == {"r1", "r2"}

TaskRows == UNION {[1..n -> TaskRequestIds] : n \in 0..MaxRows}

\* what the remote side answers a respond call of a task with: a transport
\* exception, an acceptance, a retryable and a final rejection
TaskRespondResults ==
    {TransportException,
     Response(Dict(Word("ok"), None)),
     Response(Dict(Word("error"), Word("busy"))),
     Response(Dict(Word("conflict"), Word("stale")))}

\* the channel a coroutine dispatches on
TaskMode(op) ==
    IF op = "respond_to_signal" THEN _DISPATCH_MODE_SIGNAL ELSE _DISPATCH_MODE_POLLING

RECURSIVE task_drain_loop(_, _)

\* the delivery of task t ends with a Dispatch of this submission_status:
\* respond_to_signal returns it, drain_pending_calls appends it and goes on
\* with the next row
TaskFinish(s, t, status) ==
    LET done == [s EXCEPT !.task[t].submission_status = status]
    IN  IF s.task[t].op = "respond_to_signal"
        THEN [done EXCEPT !.task[t].pc = "returned"]
        ELSE task_drain_loop([done EXCEPT !.task[t].rows = Tail(@)], t)

\* await self._client.tool_calls.respond(...): the call is made and the
\* task is suspended until the remote side answers
task_call_respond(s, t, attempt) ==
    [s EXCEPT !.responded = @ \cup {[task |-> t, request_id |-> s.task[t].request_id]},
              !.task[t].attempt = attempt,
              !.task[t].pc = "respond"]

\* respond_to_signal and respond_to_pending_call once dispatch_tool_call
\* has returned: the dedup check, then the first respond call
task_after_handler(s, t) ==
    IF s.task[t].request_id \in s.handled_request_ids
    THEN TaskFinish(s, t, Word("local_duplicate"))
    ELSE task_call_respond(s, t, 1)

\* respond_to_signal and respond_to_pending_call from _require_dispatch_mode
\* to the first await that suspends
task_respond_to(s, t, mode, request_id) ==
    LET required == _require_dispatch_mode(s.dispatch_mode, mode)
        invoked == [s EXCEPT !.dispatch_mode = required.dispatch_mode,
                             !.invoked = @ \cup {[task |-> t, mode |-> mode]},
                             !.task[t].request_id = request_id,
                             !.task[t].attempt = 0]
    IN  IF required.raised # "None"
        THEN [s EXCEPT !.task[t].pc = "raised", !.task[t].raised = required.raised]
        ELSE IF s.task[t].handler = "sync"
        THEN task_after_handler(invoked, t)
        ELSE [invoked EXCEPT !.task[t].pc = "handler"]

\* for row in rows: await self.respond_to_pending_call(row, ...)
task_drain_loop(s, t) ==
    IF s.task[t].rows = <<>>
    THEN [s EXCEPT !.task[t].pc = "returned"]
    ELSE task_respond_to(s, t, _DISPATCH_MODE_POLLING, Head(s.task[t].rows))

\* _submit_tool_call_response once a respond call has ended with result,
\* and _finalize_submitted_dispatch when it was the last one
task_submitted(s, t, result) ==
    LET task == s.task[t]
        submission == _classify_tool_call_response(result.response)
        again == [s EXCEPT !.task[t].pc = "sleep"]
    IN  IF result.raised
        THEN IF task.attempt < task.attempts THEN again
             ELSE TaskFinish(s, t, Word("exception"))
        ELSE IF submission.accepted
        THEN TaskFinish([s EXCEPT !.handled_request_ids = @ \cup {task.request_id}],
                        t, submission.status)
        ELSE IF submission.retryable /\ task.attempt < task.attempts THEN again
        ELSE TaskFinish(s, t, submission.status)

UnchangedButTasks ==
    UNCHANGED <<registry, last, prev, acked, facade, wait, twin, stream, skill, router>>

InitTasks ==
    /\ registry = NoRegistry
    /\ last = Idle
    /\ prev = Summary(Idle)
    /\ acked = {}
    /\ facade = NoFacade
    /\ wait = NoWait
    /\ twin = NoTwin
    /\ stream = NoStream
    /\ skill = NoSkill
    /\ router = NoRouter
    /\ tasks = NoTasks

\* a task starts respond_to_signal(signal) with an indication of this
\* session and the default retry settings
TaskRespondToSignal ==
    \E t \in TaskIds, request_id \in TaskRequestIds, handler \in {"sync", "async"} :
        /\ tasks.task[t].pc = "idle"
        /\ tasks' = task_respond_to(
                        [tasks EXCEPT !.task[t].op = "respond_to_signal",
                                      !.task[t].handler = handler,
                                      !.task[t].attempts =
                                          _normalize_retry_settings(
                                              _DEFAULT_RESPONSE_SUBMIT_ATTEMPTS)],
                        t, _DISPATCH_MODE_SIGNAL, request_id)
        /\ UnchangedButTasks

\* a task starts drain_pending_calls() with the default retry settings and
\* awaits the listing
TaskDrainPendingCalls ==
    \E t \in TaskIds, handler \in {"sync", "async"} :
        /\ tasks.task[t].pc = "idle"
        /\ tasks' = [tasks EXCEPT !.task[t].op = "drain_pending_calls",
                                  !.task[t].handler = handler,
                                  !.task[t].attempts =
                                      _normalize_retry_settings(
                                          _DEFAULT_RESPONSE_SUBMIT_ATTEMPTS),
                                  !.task[t].pc = "listing"]
        /\ UnchangedButTasks

\* sessions.tool_calls answers with the pending rows of the session
TaskListingReturned ==
    \E t \in TaskIds, rows \in TaskRows :
        /\ tasks.task[t].pc = "listing"
        /\ tasks' = task_drain_loop([tasks EXCEPT !.task[t].rows = rows], t)
        /\ UnchangedButTasks

\* an asynchronous handler returns
TaskHandlerReturned ==
    \E t \in TaskIds :
        /\ tasks.task[t].pc = "handler"
        /\ tasks' = task_after_handler(tasks, t)
        /\ UnchangedButTasks

\* a respond call ends
TaskRespondReturned ==
    \E t \in TaskIds, result \in TaskRespondResults :
        /\ tasks.task[t].pc = "respond"
        /\ tasks' = task_submitted(tasks, t, result)
        /\ UnchangedButTasks

\* the retry sleep ends and the next respond call is made
TaskSleepReturned ==
    \E t \in TaskIds :
        /\ tasks.task[t].pc = "sleep"
        /\ tasks' = task_call_respond(tasks, t, tasks.task[t].attempt + 1)
        /\ UnchangedButTasks

\* reset_dispatch_mode(), called once at most
TaskResetDispatchMode ==
    /\ ~tasks.reset
    /\ tasks' = [tasks EXCEPT !.dispatch_mode = NoDispatchMode, !.reset = TRUE]
    /\ UnchangedButTasks

NextTasks ==
    \/ TaskRespondToSignal
    \/ TaskDrainPendingCalls
    \/ TaskListingReturned
    \/ TaskHandlerReturned
    \/ TaskRespondReturned
    \/ TaskSleepReturned
    \/ TaskResetDispatchMode

SpecTasks == InitTasks /\ [][NextTasks]_vars

-----------------------------------------------------------------------------
(* Vocabulary of the properties *)

Busy == last.op # "idle"

IsRespond(l) == l.op \in {"respond_to_signal", "respond_to_pending_call"}

IsDelivery(l) ==
    l.op \in {"respond_to_signal", "respond_to_pending_call", "drain_pending_calls",
              "send_and_handle"}

\* ids acknowledged before the i-th dispatched indication of operation l
AckedAt(l, i) ==
    l.acked_before \cup {l.log[j].request_id.v : j \in {k \in 1..(i - 1) : l.log[k].accepted}}

\* the respond calls operation l made for its i-th dispatched indication
RECURSIVE CallsBefore(_, _)
CallsBefore(l, i) == IF i <= 1 THEN 0 ELSE CallsBefore(l, i - 1) + l.log[i - 1].calls

CallsOf(l, i) == SubSeq(l.calls, CallsBefore(l, i) + 1, CallsBefore(l, i) + l.log[i].calls)

\* the indication is a tool call: a signal of the tool-call event type, or a
\* listed row, with a non-empty tool string
SignalIsToolCall(signal) ==
    /\ signal.event_type = TOOL_CALL_EVENT
    /\ signal.tool.t = "str"
    /\ strip(signal.tool.v) # <<>>

RowIsToolCall(row) == row.t = "dict" /\ row.tool.t = "str" /\ strip(row.tool.v) # <<>>

\* the session/thread id the indication carries, None when it carries none
CarriedSessionId(l) ==
    IF l.op = "respond_to_signal" THEN _signal_session_id(l.arg)
    ELSE _pending_call_session_id(l.arg)

IsForeign(id) == id # None /\ id # StrVal(SessionId)

\* the rows of the listing a drain was given (none for a payload without list)
ListedRows(l) == IF l.arg.t = "dict" /\ l.arg.data.t = "list" THEN l.arg.data.v ELSE <<>>

RowIsForSession(row) == RowIsToolCall(row) /\ ~IsForeign(_pending_call_session_id(row))

\* nothing happened: no Dispatch, no error, no respond call, no handler run,
\* registry as before
NoEffect(l) ==
    /\ l.returned = <<>>
    /\ l.raised = "None"
    /\ l.calls = <<>>
    /\ l.log = <<>>
    /\ registry = l.before

-----------------------------------------------------------------------------
(* C1 *)

\* C1 as stated: when respond_to_signal / respond_to_pending_call is called
\* twice in a row with the same (normalized) request id, the second call
\* makes no tool_calls.respond call and returns a Dispatch with
\* submission_status "local_duplicate" and submission_idempotent true.
C1_SecondCallIsAlwaysLocalDuplicate ==
    (/\ IsRespond(last) /\ IsRespond(prev)
     /\ last.log # <<>>
     /\ prev.request_id # None
     /\ last.log[1].request_id = prev.request_id)
        => /\ last.calls = <<>>
           /\ last.returned[1].submission_status = Word("local_duplicate")
           /\ last.returned[1].submission_idempotent

\* C1 amended: the same, provided the first call ended with the id in the
\* dedup cache, that is its submission was accepted or it was itself a
\* local duplicate.
C1_SecondCallIsLocalDuplicateAfterAccepted ==
    (/\ IsRespond(last) /\ IsRespond(prev)
     /\ last.log # <<>>
     /\ prev.request_id # None
     /\ prev.accepted \/ prev.duplicate
     /\ last.log[1].request_id = prev.request_id)
        => /\ last.calls = <<>>
           /\ last.returned[1].submission_status = Word("local_duplicate")
           /\ last.returned[1].submission_idempotent

C1_Witness ==
    /\ IsRespond(last) /\ IsRespond(prev)
    /\ prev.accepted
    /\ last.log # <<>>
    /\ last.log[1].request_id = prev.request_id
    /\ last.returned[1].submission_status = Word("local_duplicate")

-----------------------------------------------------------------------------
(* C2 *)

\* C2 as stated: once a submission for request id r has been accepted, no
\* later delivery carrying r causes another tool_calls.respond call for r.
C2_AcknowledgedIdIsNeverResubmitted ==
    \A i \in DOMAIN last.log :
        (last.log[i].request_id # None /\ last.log[i].request_id.v \in AckedAt(last, i))
            => last.log[i].calls = 0

\* C2 amended: a later delivery of an acknowledged id r causes another
\* respond call only after r was evicted from the dedup cache, which
\* happens only once the cache holds its 4096 ids; while the cache holds
\* fewer, every acknowledged id is in it and is reported local_duplicate.
C2_AcknowledgedIdIsResubmittedOnlyAfterEviction ==
    /\ \A i \in DOMAIN last.log :
          (/\ last.log[i].request_id # None
           /\ last.log[i].request_id.v \in AckedAt(last, i)
           /\ last.log[i].calls > 0)
              => last.log[i].handled_len = _MAX_HANDLED_REQUEST_IDS
    /\ HandledLen(registry.handled_request_ids) < _MAX_HANDLED_REQUEST_IDS
          => acked \subseteq registry.handled_request_ids.ids

C2_Witness ==
    /\ IsDelivery(last)
    /\ \E i \in DOMAIN last.log :
          /\ last.log[i].request_id # None
          /\ last.log[i].request_id.v \in AckedAt(last, i)
          /\ last.log[i].duplicate
          /\ last.log[i].calls = 0

-----------------------------------------------------------------------------
(* C3 *)

\* C3: after every accepted submission handled_request_ids holds at most
\* 4096 ids and contains the id just acknowledged, so that an immediately
\* repeated delivery of that id is a local_duplicate without respond call,
\* also when the cache was full before the insert.
C3_CacheBoundedAndKeepsLatestId ==
    /\ HandledLen(registry.handled_request_ids) <= _MAX_HANDLED_REQUEST_IDS
    /\ \A i \in DOMAIN last.log :
          (last.log[i].accepted /\ \A j \in (i + 1)..Len(last.log) : ~last.log[j].accepted)
              => last.log[i].request_id.v \in registry.handled_request_ids.ids
    /\ (/\ IsDelivery(last) /\ IsDelivery(prev)
        /\ prev.accepted
        /\ last.log # <<>>
        /\ last.log[1].request_id = prev.request_id)
           => /\ last.log[1].calls = 0
              /\ last.log[1].duplicate
              /\ (last.returned # <<>> =>
                     last.returned[1].submission_status = Word("local_duplicate"))

\* the acknowledgement that overflowed a full cache is followed by a repeat
C3_Witness ==
    /\ IsDelivery(last) /\ IsDelivery(prev)
    /\ prev.accepted /\ prev.was_full
    /\ last.log # <<>>
    /\ last.log[1].request_id = prev.request_id
    /\ last.log[1].duplicate
    /\ HandledLen(registry.handled_request_ids) = _MAX_HANDLED_REQUEST_IDS

-----------------------------------------------------------------------------
(* C4 *)

\* C4: on a registry locked to "signal" a drain whose listing has a tool-call
\* row for this session raises the dispatch mode conflict without running a
\* handler or submitting anything, and so does a tool-call signal on a
\* registry locked to "polling"; right after reset_dispatch_mode the call
\* succeeds and dispatches.
C4_OtherChannelConflictsUntilReset ==
    /\ (/\ last.op = "drain_pending_calls"
        /\ \E i \in DOMAIN ListedRows(last) : RowIsForSession(ListedRows(last)[i]))
           => /\ last.before.dispatch_mode = _DISPATCH_MODE_SIGNAL
                 => /\ last.raised = "dispatch_mode_conflict"
                    /\ last.log = <<>> /\ last.calls = <<>> /\ last.returned = <<>>
                    /\ registry = last.before
              /\ prev.op = "reset_dispatch_mode"
                 => /\ last.raised = "None"
                    /\ last.returned # <<>>
                    /\ registry.dispatch_mode = _DISPATCH_MODE_POLLING
    /\ (/\ last.op = "respond_to_signal"
        /\ SignalIsToolCall(last.arg)
        /\ ~IsForeign(_signal_session_id(last.arg)))
           => /\ last.before.dispatch_mode = _DISPATCH_MODE_POLLING
                 => /\ last.raised = "dispatch_mode_conflict"
                    /\ last.log = <<>> /\ last.calls = <<>> /\ last.returned = <<>>
                    /\ registry = last.before
              /\ prev.op = "reset_dispatch_mode"
                 => /\ last.raised = "None"
                    /\ last.returned # <<>>
                    /\ registry.dispatch_mode = _DISPATCH_MODE_SIGNAL

C4_Witness ==
    /\ last.op = "drain_pending_calls"
    /\ last.before.dispatch_mode = _DISPATCH_MODE_SIGNAL
    /\ Len(ListedRows(last)) > 1
    /\ last.raised = "dispatch_mode_conflict"

-----------------------------------------------------------------------------
(* C5 *)

ChannelOf(op) ==
    IF op = "respond_to_signal" THEN _DISPATCH_MODE_SIGNAL
    ELSE IF op \in {"respond_to_pending_call", "drain_pending_calls", "send_and_handle"}
    THEN _DISPATCH_MODE_POLLING
    ELSE NoDispatchMode

\* C5: dispatch_mode changes only from unset to the channel of the dispatch
\* being processed, or to unset by reset_dispatch_mode; no step changes a
\* set mode to the other mode.
C5_ModeChangesOnlyFromUnsetOrByReset ==
    [][registry'.dispatch_mode # registry.dispatch_mode
          => \/ /\ registry.dispatch_mode = NoDispatchMode
                /\ IsDelivery(last')
                /\ last'.log # <<>> \/ last'.op = "send_and_handle"
                /\ registry'.dispatch_mode = ChannelOf(last'.op)
             \/ /\ last'.op = "reset_dispatch_mode"
                /\ registry'.dispatch_mode = NoDispatchMode]_vars

\* a submission that failed after retries left the mode it had just set
C5_Witness ==
    /\ last.op = "respond_to_pending_call"
    /\ last.before.dispatch_mode = NoDispatchMode
    /\ registry.dispatch_mode = _DISPATCH_MODE_POLLING
    /\ last.log # <<>>
    /\ last.log[1].calls > 1
    /\ ~last.log[1].accepted

-----------------------------------------------------------------------------
(* C6 *)

\* C6: an indication that is not a tool call, and a drain over an empty
\* listing, return no Dispatch, submit nothing and leave the registry
\* (dispatch_mode, dedup cache) as it was, so that an unset mode stays unset
\* for a following dispatch by either channel.
C6_NonToolCallHasNoEffect ==
    /\ (last.op = "respond_to_signal" /\ ~SignalIsToolCall(last.arg)) => NoEffect(last)
    /\ (last.op = "respond_to_pending_call" /\ ~RowIsToolCall(last.arg)) => NoEffect(last)
    /\ (/\ last.op = "drain_pending_calls"
        /\ last.arg.t = "dict" /\ last.arg.data.t = "list"
        /\ \A i \in DOMAIN ListedRows(last) : ~RowIsToolCall(ListedRows(last)[i]))
           => NoEffect(last)

C6_Witness ==
    /\ last.op = "respond_to_signal"
    /\ last.arg.event_type = TOOL_CALL_EVENT
    /\ ~SignalIsToolCall(last.arg)
    /\ last.before.dispatch_mode = NoDispatchMode
    /\ registry.dispatch_mode = NoDispatchMode

-----------------------------------------------------------------------------
(* C7 *)

\* the listing without the rows that carry another session's id
RECURSIVE WithoutForeignRows(_)
WithoutForeignRows(rows) ==
    IF rows = <<>> THEN <<>>
    ELSE IF IsForeign(_pending_call_session_id(Head(rows)))
    THEN WithoutForeignRows(Tail(rows))
    ELSE <<Head(rows)>> \o WithoutForeignRows(Tail(rows))

\* C7: an indication that carries a session/thread id other than the
\* session's own is ignored: no Dispatch, no handler run, no respond call,
\* and the registry is what it would be had the indication not been
\* delivered.  For a listed row: the drain ends as some drain of the
\* listing without the foreign rows ends.
C7_ForeignIndicationIsIgnored ==
    /\ (IsRespond(last) /\ IsForeign(CarriedSessionId(last))) => NoEffect(last)
    /\ (/\ last.op = "drain_pending_calls"
        /\ \E i \in DOMAIN ListedRows(last) :
              IsForeign(_pending_call_session_id(ListedRows(last)[i])))
           => \E m \in DrainAttemptArgs :
                 \E r \in drain_pending_calls(
                             last.before, SessionId,
                             Payload(ListVal(WithoutForeignRows(ListedRows(last))), None, None),
                             m, DrainEnv) :
                     /\ r.registry = registry
                     /\ r.returned = last.returned
                     /\ r.raised = last.raised
                     /\ r.calls = last.calls
                     /\ r.log = last.log

\* a tool-call signal for a registered skill, with a request id, from
\* another session
C7_Witness ==
    /\ last.op = "respond_to_signal"
    /\ SignalIsToolCall(last.arg)
    /\ IsForeign(CarriedSessionId(last))
    /\ last.arg.session_id = None
    /\ last.returned = <<>>

-----------------------------------------------------------------------------
(* C8 *)

RanWithoutError(e) ==
    e.matched /\ e.handler_result \in {"returns", "returns_failure_envelope"}

\* the error texts a submission is classified with
SubmissionErrors ==
    {Word("rejected with malformed response payload"),
     Word("rejected with malformed status payload"),
     Word("rejected with status"),
     Word("tool call response submit failed")}

\* C8: a returned Dispatch has handled = true only if the skill ran without
\* error and its result was accepted, was a local duplicate or needed no
\* submission; a submission that ends not accepted gives handled = false and
\* the classified submission error although the skill succeeded; an accepted
\* submission never makes a locally failed Dispatch handled.
C8_HandledOnlyIfRanAndAcknowledged ==
    \A i \in DOMAIN last.returned :
        LET d == last.returned[i]
            e == last.log[i]
        IN  /\ d.handled => /\ RanWithoutError(e)
                            /\ e.accepted \/ e.duplicate \/ e.request_id = None
            /\ (e.submitted /\ ~e.accepted) => (~d.handled /\ d.error \in SubmissionErrors)
            /\ ~RanWithoutError(e) => ~d.handled
            /\ (RanWithoutError(e) /\ (e.accepted \/ e.duplicate \/ e.request_id = None))
                  => d.handled

C8_Witness ==
    /\ IsRespond(last)
    /\ last.returned # <<>>
    /\ last.log[1].handler_result = "returns"
    /\ last.log[1].submitted /\ ~last.log[1].accepted
    /\ ~last.returned[1].handled
    /\ last.returned[1].error \in SubmissionErrors

-----------------------------------------------------------------------------
(* C9 *)

\* C9 as stated: for a tool that is not registered, a call with a request id
\* returns a Dispatch with handled = false and still submits an envelope
\* with success = false; handled stays false when the submission is accepted.
C9_UnknownToolIsAlwaysSubmitted ==
    \A i \in DOMAIN last.returned :
        (~last.log[i].matched /\ last.log[i].request_id # None)
            => /\ ~last.returned[i].handled
               /\ last.log[i].calls >= 1
               /\ \A k \in DOMAIN CallsOf(last, i) :
                     /\ ~CallsOf(last, i)[k].success
                     /\ CallsOf(last, i)[k].request_id = last.log[i].request_id.v

\* C9 amended: the same, except that nothing is submitted when the request
\* id is already in the dedup cache (submission_status "local_duplicate").
C9_UnknownToolIsSubmittedUnlessDuplicate ==
    \A i \in DOMAIN last.returned :
        (~last.log[i].matched /\ last.log[i].request_id # None)
            => /\ ~last.returned[i].handled
               /\ ~last.returned[i].response_success
               /\ i = 1 => (last.log[i].duplicate
                               <=> last.log[i].request_id.v \in last.before.handled_request_ids.ids)
               /\ ~last.log[i].duplicate
                     => /\ last.log[i].calls >= 1
                        /\ \A k \in DOMAIN CallsOf(last, i) :
                              /\ ~CallsOf(last, i)[k].success
                              /\ CallsOf(last, i)[k].request_id = last.log[i].request_id.v
               /\ last.log[i].duplicate
                     => /\ last.log[i].calls = 0
                        /\ last.returned[i].submission_status = Word("local_duplicate")

C9_Witness ==
    /\ IsRespond(last)
    /\ last.returned # <<>>
    /\ ~last.log[1].matched
    /\ last.log[1].accepted
    /\ ~last.returned[1].handled
    /\ last.calls # <<>>

-----------------------------------------------------------------------------
(* C10 *)

HandlerFailed(e) == e.matched /\ e.handler_result \in {"raises", "awaitable"}

\* C10 as stated: a handler that raises, or returns an awaitable, never makes
\* the call raise: the Dispatch has handled = false and an envelope with
\* success = false, and with a request id that envelope is still submitted.
C10_HandlerFailureIsAlwaysSubmitted ==
    \A i \in DOMAIN last.log :
        (HandlerFailed(last.log[i]) /\ last.op # "send_and_handle")
            => /\ last.raised = "None"
               /\ i \in DOMAIN last.returned
               /\ ~last.returned[i].handled
               /\ ~last.returned[i].response_success
               /\ last.log[i].request_id # None
                     => /\ last.log[i].calls >= 1
                        /\ \A k \in DOMAIN CallsOf(last, i) : ~CallsOf(last, i)[k].success

\* C10 amended: the same, except that nothing is submitted when the request
\* id is already in the dedup cache (submission_status "local_duplicate").
C10_HandlerFailureIsSubmittedUnlessDuplicate ==
    \A i \in DOMAIN last.log :
        (HandlerFailed(last.log[i]) /\ last.op # "send_and_handle")
            => /\ last.raised = "None"
               /\ i \in DOMAIN last.returned
               /\ ~last.returned[i].handled
               /\ ~last.returned[i].response_success
               /\ last.returned[i].error # None
               /\ (last.log[i].request_id # None /\ ~last.log[i].duplicate)
                     => /\ last.log[i].calls >= 1
                        /\ \A k \in DOMAIN CallsOf(last, i) : ~CallsOf(last, i)[k].success
               /\ last.log[i].duplicate
                     => /\ last.log[i].calls = 0
                        /\ last.returned[i].submission_status = Word("local_duplicate")

C10_Witness ==
    /\ last.op = "respond_to_signal"
    /\ last.log # <<>>
    /\ last.log[1].handler_result = "awaitable"
    /\ last.log[1].accepted
    /\ ~last.returned[1].handled
    /\ last.calls # <<>>

-----------------------------------------------------------------------------
(* C11 *)

\* the first respond call of dispatched indication e failed in transport or
\* was answered status "error", and the second one was accepted
FailedThenAccepted(e) ==
    /\ e.submitted
    /\ Len(e.answers) = 2
    /\ e.answers[1] \in {Word("exception"), Word("error")}
    /\ e.accepted

\* C11 as stated: when the first submission attempt fails (exception or
\* status "error") and the second is accepted, the Dispatch has handled =
\* true, submission_status "ok" and submission_attempts = 2 with exactly
\* two respond calls; submission_attempts always equals the number of
\* respond calls made for the Dispatch.
C11_RetriedSubmissionIsHandledOk ==
    \A i \in DOMAIN last.returned :
        /\ FailedThenAccepted(last.log[i])
              => /\ last.returned[i].handled
                 /\ last.returned[i].submission_status = Word("ok")
                 /\ last.returned[i].submission_attempts = 2
                 /\ Len(CallsOf(last, i)) = 2
        /\ last.returned[i].submission_attempts = Len(CallsOf(last, i))

\* C11 amended: in that case the Dispatch has submission_attempts = 2 with
\* exactly two respond calls and reports the status the second call was
\* accepted with ("ok", or "conflict" / "not_found" when it was accepted as
\* idempotent); handled is true exactly when the skill ran without error;
\* submission_attempts always equals the number of respond calls made.
C11_RetriedSubmissionCountsTwoAttempts ==
    \A i \in DOMAIN last.returned :
        /\ FailedThenAccepted(last.log[i])
              => /\ last.returned[i].handled <=> RanWithoutError(last.log[i])
                 /\ last.returned[i].submission_status = last.log[i].answers[2]
                 /\ last.returned[i].submission_status
                       \in {Word("ok"), Word("conflict"), Word("not_found")}
                 /\ last.returned[i].submission_attempts = 2
                 /\ Len(CallsOf(last, i)) = 2
        /\ last.returned[i].submission_attempts = Len(CallsOf(last, i))
        /\ last.log[i].calls = Len(last.log[i].answers)

C11_Witness ==
    /\ IsRespond(last)
    /\ last.returned # <<>>
    /\ FailedThenAccepted(last.log[1])
    /\ last.log[1].answers = <<Word("error"), Word("ok")>>
    /\ last.returned[1].handled
    /\ last.returned[1].submission_attempts = 2
    /\ Len(last.calls) = 2

-----------------------------------------------------------------------------
(* C12 *)

\* the last respond call of the Dispatch d (log entry e) was answered
\* status "conflict" with code "in_flight", or status "not_found"
AnsweredIdempotent(d, e) ==
    /\ e.submitted
    /\ LET answer == e.answers[Len(e.answers)]
       IN  \/ answer = Word("conflict") /\ d.submission_code = Word("in_flight")
           \/ answer = Word("not_found")

\* C12: a respond answer status "conflict" / code "in_flight", or status
\* "not_found", is accepted as idempotent: it is not retried (answered at
\* the first attempt, one respond call is made), the Dispatch keeps the
\* handled value of the local run and reports that status with
\* submission_idempotent = true, and the request id is in the dedup cache.
C12_InFlightAndNotFoundAreAcceptedIdempotent ==
    /\ \A i \in DOMAIN last.returned :
          LET d == last.returned[i]
              e == last.log[i]
          IN  AnsweredIdempotent(d, e)
                 => /\ e.accepted
                    /\ d.handled = e.local_handled
                    /\ RanWithoutError(e) => d.handled
                    /\ d.submission_status = e.answers[Len(e.answers)]
                    /\ d.submission_idempotent
                    /\ d.submission_attempts = Len(e.answers)
                    /\ IsRespond(last) => e.request_id.v \in registry.handled_request_ids.ids
    /\ \A i \in DOMAIN last.log :
          \A k \in DOMAIN last.log[i].answers :
              last.log[i].answers[k] = Word("not_found") => k = Len(last.log[i].answers)
    /\ \A response \in {Dict(Word("conflict"), Word("in_flight")), Dict(Word("not_found"), None),
                         Dict(StrVal(<<" ", "not_found">>), Word("in_flight"))} :
          LET submission == _classify_tool_call_response(response)
          IN  submission.accepted /\ ~submission.retryable /\ submission.idempotent

C12_Witness ==
    /\ last.op = "respond_to_signal"
    /\ last.returned # <<>>
    /\ last.log[1].answers = <<Word("conflict")>>
    /\ last.returned[1].submission_code = Word("in_flight")
    /\ last.returned[1].handled
    /\ last.returned[1].submission_idempotent
    /\ last.log[1].handled_len = _MAX_HANDLED_REQUEST_IDS
    /\ last.log[1].request_id.v \in registry.handled_request_ids.ids

-----------------------------------------------------------------------------
(* C13 *)

\* responses that are no object or have no non-empty status string
MalformedResponses ==
    {Other, Dict(None, None), Dict(None, Word("busy")), Dict(StrVal(<<" ">>), None),
     Dict(IntVal(1), None), Dict(Other, None)}

\* C13: a response that is no object or has no non-empty status is
\* classified status "malformed", accepted = false, retryable = true; it is
\* retried while attempts are left, and when the last attempt allowed is
\* answered so the Dispatch ends with handled = false, submission_status
\* "malformed" and a non-empty error.
C13_MalformedResponseIsRetriedThenFails ==
    /\ \A response \in MalformedResponses :
          LET submission == _classify_tool_call_response(response)
          IN  /\ submission.status = Word("malformed")
              /\ ~submission.accepted
              /\ submission.retryable
              /\ submission.error # None
    /\ \A i \in DOMAIN last.log :
          LET e == last.log[i]
          IN  /\ Len(e.answers) <= e.limit
              /\ \A k \in DOMAIN e.answers :
                    e.answers[k] = Word("malformed")
                       => /\ k < e.limit => k < Len(e.answers)
                          /\ k = Len(e.answers)
                                => /\ ~e.accepted
                                   /\ k = e.limit
                                   /\ i \in DOMAIN last.returned
                                         => /\ ~last.returned[i].handled
                                            /\ last.returned[i].submission_status
                                                  = Word("malformed")
                                            /\ last.returned[i].submission_attempts = e.limit
                                            /\ last.returned[i].error
                                                  \in {Word("rejected with malformed response payload"),
                                                       Word("rejected with malformed status payload")}

C13_Witness ==
    /\ IsRespond(last)
    /\ last.returned # <<>>
    /\ last.log[1].handler_result = "returns"
    /\ last.log[1].limit = _DEFAULT_RESPONSE_SUBMIT_ATTEMPTS
    /\ last.log[1].answers = <<Word("malformed"), Word("malformed"), Word("malformed")>>
    /\ ~last.returned[1].handled
    /\ last.returned[1].submission_status = Word("malformed")
    /\ Len(last.calls) = 3

-----------------------------------------------------------------------------
(* C14 *)

\* the response to the last respond call of e is an object without status
StatusAbsent(e) == e.submitted /\ e.response.t = "dict" /\ e.response.status = None

\* ... is an object whose status is "ok"
StatusOk(e) ==
    /\ e.submitted
    /\ e.response.t = "dict"
    /\ e.response.status.t = "str"
    /\ strip(e.response.status.v) = <<"ok">>

\* C14 as stated: a response whose status is absent or "ok" is classified
\* accepted = true, retryable = false.
C14_AbsentOrOkStatusIsAccepted ==
    \A i \in DOMAIN last.log :
        (StatusAbsent(last.log[i]) \/ StatusOk(last.log[i]))
            => /\ last.log[i].accepted
               /\ LET submission == _classify_tool_call_response(last.log[i].response)
                  IN  submission.accepted /\ ~submission.retryable

\* C14 amended: a response whose status is "ok" is classified accepted =
\* true, retryable = false; a response whose status is absent is classified
\* "malformed", accepted = false, retryable = true, and ends a submission
\* only at the attempt limit.
C14_OkStatusIsAcceptedAbsentIsMalformed ==
    \A i \in DOMAIN last.log :
        LET e == last.log[i]
            submission == _classify_tool_call_response(e.response)
        IN  /\ StatusOk(e)
                  => /\ e.accepted
                     /\ e.answers[Len(e.answers)] = Word("ok")
                     /\ submission.accepted /\ ~submission.retryable
                     /\ ~submission.idempotent
            /\ StatusAbsent(e)
                  => /\ ~e.accepted
                     /\ e.answers[Len(e.answers)] = Word("malformed")
                     /\ Len(e.answers) = e.limit
                     /\ ~submission.accepted /\ submission.retryable

C14_Witness ==
    /\ IsRespond(last)
    /\ last.returned # <<>>
    /\ StatusOk(last.log[1])
    /\ last.log[1].response.status = StrVal(<<" ", "ok">>)
    /\ last.log[1].accepted
    /\ last.returned[1].submission_status = Word("ok")
    /\ last.returned[1].handled

-----------------------------------------------------------------------------
(* Vocabulary of the facade properties *)

CatalogKinds == {"register", "unregister", "clear"}

\* the step is a register / unregister / clear call on a bound session
BoundCatalogStep == facade'.last.target = "bound" /\ facade'.last.op \in CatalogKinds

\* the step is a register / unregister call on the retained draft session
DraftRegisterStep == facade'.last.target = "draft" /\ facade'.last.op \in {"register", "unregister"}

\* the call names a skill and does not ask for the runtime sync
WellFormedCall(op) == strip(op.name) # <<>> /\ ~op.sync_runtime

-----------------------------------------------------------------------------
\* C15: every register, unregister and clear call on a session bound to a
\* session id (its registry is locked) raises the create-time-only error and
\* leaves the skill map, and the whole map of registries, as it was; the same
\* register and unregister calls on the draft session never raise that error
\* and, given a skill name, take effect: in the register callback of
\* create_session and on the draft session kept from it.
C15_LockedCatalogRejectsDraftAccepts ==
    /\ \A callback \in Callbacks : CallbackRuns[callback].raised = "None"
    /\ CallbackRuns[[ops |-> <<CatalogOp("register", SkillName, FALSE),
                               CatalogOp("register", <<" ", "q">>, FALSE)>>,
                     awaitable |-> FALSE]].registry.skills = {SkillName, <<"q">>}
    /\ CallbackRuns[[ops |-> <<CatalogOp("register", SkillName, FALSE),
                               CatalogOp("unregister", SkillName, FALSE)>>,
                     awaitable |-> FALSE]].registry.skills = {}
    /\ [][/\ BoundCatalogStep =>
               /\ facade.registries[facade'.last.session_id].catalog_locked
               /\ facade'.last.raised = "create_time_only"
               /\ facade'.registries = facade.registries
          /\ DraftRegisterStep =>
               /\ facade'.last.raised # "create_time_only"
               /\ WellFormedCall(facade'.last.value) =>
                     /\ facade'.last.raised = "None"
                     /\ facade'.last.op = "register" =>
                           facade'.draft.skills =
                               facade.draft.skills \cup {strip(facade'.last.value.name)}
                     /\ facade'.last.op = "unregister" =>
                           facade'.draft.skills =
                               facade.draft.skills \ {strip(facade'.last.value.name)}]_vars

\* a register call on the bound session was rejected; the skill it holds was
\* registered by the callback on the draft session
C15_Witness ==
    /\ facade.last.target = "bound"
    /\ facade.last.op = "register"
    /\ facade.last.raised = "create_time_only"
    /\ SessionId \in DOMAIN facade.registries
    /\ facade.registries[SessionId].skills = {SkillName}
    /\ facade.draft # Absent
    /\ facade.draft.skills = {SkillName}

-----------------------------------------------------------------------------
\* C16: after every facade operation (session, create_session, close_session,
\* entering and leaving lifecycle) and every call made through the sessions
\* it returned, each registry stored in the facade's map is locked; the draft
\* registry of create_session is unlocked and is not one of the stored ones.
C16_StoredRegistriesAreLocked ==
    /\ \A session_id \in DOMAIN facade.registries :
          facade.registries[session_id].catalog_locked
    /\ facade.draft # Absent =>
          /\ ~facade.draft.catalog_locked
          /\ \A session_id \in DOMAIN facade.registries :
                facade.registries[session_id] # facade.draft

\* session() stored a registry for an id no create_session had bound, while a
\* draft with a skill is kept
C16_Witness ==
    /\ facade.last.op = "session"
    /\ SessionId \in DOMAIN facade.registries
    /\ SessionId \notin DOMAIN facade.supplied
    /\ facade.registries[SessionId].catalog_locked
    /\ facade.draft # Absent
    /\ facade.draft.skills # {}

-----------------------------------------------------------------------------
\* the items of a dynamic_tools argument; none when the argument is not given
ToolItems(tools) == IF tools = Absent THEN <<>> ELSE tools.items

\* list() / dynamic_tools() of the bound session of session_id
CatalogSeen(session_id) == _dynamic_tool_definitions(facade.registries[session_id].skills)

\* the last operation sent a message through a session created and not closed
SentThroughCreated ==
    /\ facade.last.op = "send"
    /\ facade.last.session_id \in DOMAIN facade.supplied

\* C17 as stated: for every session create_session returned (and not closed
\* since), the catalog seen through the bound session and the dynamic_tools
\* passed with a send are the tool-definition list sessions.create was given.
C17_CatalogEqualsListSuppliedToCreate ==
    /\ \A session_id \in DOMAIN facade.supplied :
          CatalogSeen(session_id) = ToolItems(facade.supplied[session_id].create)
    /\ SentThroughCreated =>
          ToolItems(facade.last.value.passed) =
              ToolItems(facade.supplied[facade.last.session_id].create)

\* C17, amended: for every session create_session returned (and not closed
\* since), the catalog seen through the bound session stays the tool
\* definitions of the skills the register callback registered, whatever was
\* tried on the bound session, done through the kept draft, dispatched or
\* sent.  sessions.create was given that list when the caller passed no
\* dynamic_tools of its own and the list is not empty, nothing when it is
\* empty, and the caller's list otherwise.  A send passes the catalog's list
\* unless the caller passes dynamic_tools with the send.
C17_CatalogStaysAsRegisteredAtCreate ==
    /\ \A session_id \in DOMAIN facade.supplied :
          LET supplied == facade.supplied[session_id]
          IN  /\ session_id \in DOMAIN facade.registries
              /\ Tools(CatalogSeen(session_id)) = supplied.catalog
              /\ supplied.create =
                    IF supplied.kwargs_tools # Absent THEN supplied.kwargs_tools
                    ELSE IF supplied.catalog.items = <<>> THEN Absent
                    ELSE supplied.catalog
    /\ SentThroughCreated =>
          facade.last.value.passed =
              IF facade.last.value.kwargs_tools # Absent THEN facade.last.value.kwargs_tools
              ELSE facade.supplied[facade.last.session_id].catalog

\* a message was sent through a bound session created with two skills, after
\* a signal was answered through it and while the kept draft holds other skills
C17_Witness ==
    /\ SentThroughCreated
    /\ facade.last.value.kwargs_tools = Absent
    /\ facade.last.value.passed = Tools(<<[name |-> SkillName], [name |-> <<"q">>]>>)
    /\ facade.registries[facade.last.session_id].dispatch_mode = _DISPATCH_MODE_SIGNAL
    /\ facade.draft # Absent
    /\ facade.draft.skills = {}

-----------------------------------------------------------------------------
\* the listed rows that are not ignored, in listing order
RECURSIVE RowsForSession(_)
RowsForSession(rows) ==
    IF rows = <<>> THEN <<>>
    ELSE IF RowIsForSession(Head(rows))
    THEN <<Head(rows)>> \o RowsForSession(Tail(rows))
    ELSE RowsForSession(Tail(rows))

\* a drain returned its list
DrainReturned == last.op = "drain_pending_calls" /\ last.raised = "None"

\* C18: a drain handles the listed rows one at a time in listing order.  The
\* dispatches (handler runs) and the returned Dispatches are those of the rows
\* that are not ignored, in listing order; the respond calls are, row after
\* row, all the attempts of that row, retries included; and a row is
\* dispatched only after the submission of the row before it was settled, so
\* a row repeating the request id just accepted is a local duplicate.
C18_DrainHandlesRowsInListingOrder ==
    DrainReturned =>
        LET rows == RowsForSession(ListedRows(last))
        IN  /\ Len(last.returned) = Len(rows)
            /\ Len(last.log) = Len(rows)
            /\ Len(last.calls) = CallsBefore(last, Len(rows) + 1)
            /\ \A k \in DOMAIN rows :
                  /\ last.returned[k].tool = strip(rows[k].tool.v)
                  /\ last.returned[k].request_id = rows[k].requestId
                  /\ last.log[k].tool = strip(rows[k].tool.v)
                  /\ last.log[k].request_id = _to_request_id_string(rows[k].requestId)
                  /\ last.log[k].calls = Len(last.log[k].answers)
                  /\ \A c \in DOMAIN CallsOf(last, k) :
                        CallsOf(last, k)[c].request_id = last.log[k].request_id.v
                  /\ (/\ k > 1
                      /\ last.log[k - 1].accepted
                      /\ last.log[k - 1].request_id = last.log[k].request_id) =>
                        /\ last.log[k].duplicate
                        /\ last.log[k].calls = 0

\* a drain of two different rows of the session: the first was retried, the
\* second submitted after it
C18_Witness ==
    /\ DrainReturned
    /\ Len(last.log) = 2
    /\ last.log[1].request_id # last.log[2].request_id
    /\ last.log[1].calls = 2
    /\ last.log[2].calls >= 1
    /\ Len(last.returned) = 2

-----------------------------------------------------------------------------
\* the listing payload has no data list
NoDataList(payload) == payload.t # "dict" \/ payload.data.t # "list"

\* the two payloads without data list that stand for an empty listing
EmptyByDesign(payload) ==
    /\ payload.t = "dict"
    /\ \/ payload.status = Word("deleted")
       \/ payload.status = Word("error") /\ payload.code = Word("system_session")

\* no row was dispatched, nothing was submitted, the registry (dispatch_mode
\* included) is as before
NothingDispatched(l) ==
    /\ l.returned = <<>>
    /\ l.calls = <<>>
    /\ l.log = <<>>
    /\ registry = l.before

\* C19: a drain whose listing payload is not an object, or is an object
\* without data list, raises before any row is dispatched and leaves the
\* registry and its dispatch_mode as they were; except that an object with
\* status "deleted", or with status "error" and code "system_session", makes
\* the drain return the empty list, also without any effect.
C19_DrainRejectsPayloadWithoutList ==
    (last.op = "drain_pending_calls" /\ NoDataList(last.arg)) =>
        /\ NothingDispatched(last)
        /\ registry.dispatch_mode = last.before.dispatch_mode
        /\ IF last.arg.t # "dict" THEN last.raised = "unexpected_payload_type"
           ELSE IF EmptyByDesign(last.arg) THEN last.raised = "None"
           ELSE last.raised = "missing_data_list"

\* a drain was given an error payload that is not the system-session one and
\* raised, on a registry that had no dispatch mode yet
C19_Witness ==
    /\ last.op = "drain_pending_calls"
    /\ last.arg = Payload(None, Word("error"), Word("other"))
    /\ last.raised = "missing_data_list"
    /\ last.before.dispatch_mode = NoDispatchMode
    /\ registry.dispatch_mode = NoDispatchMode

-----------------------------------------------------------------------------
\* send_and_handle was called on a registry taken by the signal channel
SendOnSignalRegistry ==
    /\ last.op = "send_and_handle"
    /\ last.before.dispatch_mode = _DISPATCH_MODE_SIGNAL

\* no message was sent, no listing drained, no turn read
NothingSent(l) ==
    /\ \A n \in DOMAIN l.notes : l.notes[n] \notin {"send", "drain", "get", "turn_status"}
    /\ NothingDispatched(l)
    /\ l.value = None

\* C20 as stated: send_and_handle on a registry whose mode is signal fails
\* with the dispatch-mode conflict before any message is sent and before any
\* drain.
C20_SendOnSignalRegistryIsAConflict ==
    SendOnSignalRegistry =>
        /\ last.raised = "dispatch_mode_conflict"
        /\ NothingSent(last)

\* C20, amended: send_and_handle on a registry whose mode is signal fails
\* before any message is sent and before any drain; with the dispatch-mode
\* conflict when timeout_seconds and interval_seconds are positive, with the
\* error of the first non-positive one otherwise.
C20_SendOnSignalRegistryFailsBeforeSending ==
    SendOnSignalRegistry =>
        /\ NothingSent(last)
        /\ last.raised =
              IF last.arg.timeout_seconds <= 0 THEN "timeout_seconds_not_positive"
              ELSE IF last.arg.interval_seconds <= 0 THEN "interval_seconds_not_positive"
              ELSE "dispatch_mode_conflict"

\* the conflict was raised for a call whose terminal statuses are not usable
\* either: the mode is checked before them
C20_Witness ==
    /\ SendOnSignalRegistry
    /\ last.raised = "dispatch_mode_conflict"
    /\ _normalize_statuses(last.arg.terminal_statuses).raised # "None"

-----------------------------------------------------------------------------
(* Vocabulary of the send_and_handle properties *)

SendAndHandleCalled == last.op = "send_and_handle"

\* the steps send_and_handle took, in order
Steps == last.notes

\* step n follows a step of the given kinds
Follows(n, kinds) == n > 1 /\ Steps[n - 1] \in kinds

\* the loop was left by its break
LeftLoop == \E n \in DOMAIN Steps : Steps[n] = "break"

\* the terminal statuses the caller asked for
TerminalGiven(args) ==
    IF args.terminal_statuses = None
    THEN {StrVal(x) : x \in _DEFAULT_TERMINAL_TURN_STATUSES}
    ELSE IF args.terminal_statuses.t = "str" THEN {args.terminal_statuses}
    ELSE {args.terminal_statuses.v[i] : i \in DOMAIN args.terminal_statuses.v}

\* the status read is one of them, whatever its case and surrounding blanks
IsTerminalRead(status, args) ==
    /\ status.t = "str"
    /\ \E given \in TerminalGiven(args) :
          given.t = "str" /\ lower(strip(given.v)) = lower(strip(status.v))

\* the Dispatches of the drains of iterations i.., one after the other
RECURSIVE DrainedFrom(_, _)
DrainedFrom(polls, i) ==
    IF i > Len(polls) THEN <<>> ELSE polls[i].drained \o DrainedFrom(polls, i + 1)

-----------------------------------------------------------------------------
\* C21: send_and_handle sends one message, as its first step; every status
\* read of the loop comes right after a drain, and a drain after the send or
\* after a sleep; the loop is left right after a status read that is one of
\* the terminal statuses compared without case, and is not left while the
\* status read is not one; the dispatches returned are the Dispatches of all
\* its drains, in the order of the drains.
C21_SendThenDrainBeforeEachStatusRead ==
    SendAndHandleCalled =>
        /\ \A n \in DOMAIN Steps :
              /\ Steps[n] = "send" <=> n = 1
              /\ Steps[n] = "drain" => Follows(n, {"send", "sleep"})
              /\ Steps[n] = "turn_status" => Follows(n, {"drain", "get"})
              /\ Steps[n] = "sleep" => Follows(n, {"turn_status"}) /\ Follows(n - 1, {"drain"})
              /\ Steps[n] = "break" => Follows(n, {"turn_status"}) /\ Follows(n - 1, {"drain"})
              /\ Steps[n] = "get" => Follows(n, {"break"})
        /\ \A i \in DOMAIN last.polls :
              IsTerminalRead(last.polls[i].status, last.arg) <=>
                  (i = Len(last.polls) /\ LeftLoop)
        /\ LeftLoop => last.polls # <<>>
        /\ last.raised = "None" =>
              /\ LeftLoop
              /\ last.returned = DrainedFrom(last.polls, 1)

\* a result was returned after two iterations: the first drain dispatched a
\* call and read no terminal status, the second read "COMPLETED"
C21_Witness ==
    /\ SendAndHandleCalled
    /\ last.raised = "None"
    /\ Len(last.polls) = 2
    /\ Len(last.polls[1].drained) = 1
    /\ last.polls[2].status = Word("COMPLETED")
    /\ Len(last.returned) >= 1

-----------------------------------------------------------------------------
\* the time was up at the check of iteration i
TimeUpAt(i) == last.polls[i].elapsed >= last.arg.timeout_seconds

TimedOut == SendAndHandleCalled /\ last.raised = "WaitTimeoutError"

\* C22: send_and_handle does not loop forever.  An iteration whose status
\* read is not terminal and at whose check the elapsed time has reached
\* timeout_seconds is the last one and ends in WaitTimeoutError; the error is
\* raised at no other check, so never before one drain and one status read;
\* as every sleep lets interval_seconds elapse, the number of iterations is
\* bounded by the timeout.
C22_LoopEndsAtFirstCheckPastTimeout ==
    SendAndHandleCalled =>
        /\ \A i \in DOMAIN last.polls :
              (TimeUpAt(i) /\ ~IsTerminalRead(last.polls[i].status, last.arg)) <=>
                  (i = Len(last.polls) /\ last.raised = "WaitTimeoutError")
        /\ \A i \in DOMAIN last.polls :
              i > 1 => last.polls[i].elapsed >=
                           last.polls[i - 1].elapsed + last.arg.interval_seconds
        /\ Len(last.polls) * last.arg.interval_seconds
              <= last.arg.timeout_seconds + last.arg.interval_seconds
        /\ last.raised = "WaitTimeoutError" =>
              /\ last.polls # <<>>
              /\ \E n \in DOMAIN Steps : Steps[n] = "drain"
              /\ \E n \in DOMAIN Steps : Steps[n] = "turn_status"
              /\ Steps[Len(Steps)] = "turn_status"
              /\ last.returned = <<>>
              /\ last.value = None

\* the time ran out at the second check: the first iteration slept, the
\* second drained, read a non-terminal status and raised
C22_Witness ==
    /\ TimedOut
    /\ Len(last.polls) = 2
    /\ ~TimeUpAt(1)
    /\ last.polls[2].elapsed = last.arg.timeout_seconds
    /\ last.polls[2].status = Word("Done")

-----------------------------------------------------------------------------
\* the entry is a complete assistant entry of the turn with some text
IsCompleteReply(entry, turn_id) ==
    /\ entry.t = "dict"
    /\ entry.turnId = turn_id
    /\ entry.role = Word("assistant")
    /\ entry.status = Word("complete")
    /\ entry.content.t = "str"
    /\ strip(entry.content.v) # <<>>

\* the session detail fetched after the loop holds no such entry
NoCompleteReply(detail, turn_id) ==
    \/ detail.t # "dict"
    \/ detail.transcript.t # "list"
    \/ \A n \in DOMAIN detail.transcript.v : ~IsCompleteReply(detail.transcript.v[n], turn_id)

\* the turn reached a terminal status and the detail holds no reply for it
TerminalWithoutReply ==
    /\ SendAndHandleCalled
    /\ LeftLoop
    /\ NoCompleteReply(last.detail, last.turn_id)

\* C23: when the turn reached a terminal status and the session detail holds
\* no complete assistant entry of that turn, send_and_handle with
\* require_assistant_reply raises at once, after the one fetch of the detail
\* and without sleeping or draining again, and returns no result; without
\* require_assistant_reply it returns a result whose assistant_reply is null.
C23_MissingReplyRaisesOnlyWhenRequired ==
    TerminalWithoutReply =>
        /\ Len(Steps) >= 3
        /\ SubSeq(Steps, Len(Steps) - 2, Len(Steps)) = <<"break", "get", "turn_status">>
        /\ IF last.arg.require_assistant_reply
           THEN /\ last.raised = "WaitTimeoutError_no_reply"
                /\ last.value = None
                /\ last.returned = <<>>
           ELSE /\ last.raised = "None"
                /\ last.value.t = "result"
                /\ last.value.assistant_reply = None

\* a reply was required and the detail holds entries, none of them a
\* complete assistant entry of the turn
C23_Witness ==
    /\ TerminalWithoutReply
    /\ last.arg.require_assistant_reply
    /\ last.raised = "WaitTimeoutError_no_reply"
    /\ last.detail.t = "dict"
    /\ Len(last.polls) = 1

-----------------------------------------------------------------------------
(* Vocabulary of the WaitApi properties *)

UntilCalled == wait.op = "until"

AssistantReplyCalled == wait.op = "assistant_reply"

\* the call has ended
Ended == wait.pc \in {"returned", "raised"}

\* the caller's predicate holds for a value polled
Holds(predicate, value) ==
    \/ predicate = "None" /\ value # 0
    \/ predicate = "is3" /\ value = 3

-----------------------------------------------------------------------------
\* C24: when until returns, it returns the value polled last, the predicate
\* holds for it and for no value polled before it, poll was called once per
\* value and there was one interval sleep between two consecutive polls and
\* none after the last.
C24_UntilReturnsFirstMatchAfterKPolls ==
    (UntilCalled /\ wait.pc = "returned") =>
        /\ wait.polled # <<>>
        /\ wait.result = IntVal(wait.polled[Len(wait.polled)])
        /\ \A i \in DOMAIN wait.polled :
              Holds(wait.args.predicate, wait.polled[i]) <=> i = Len(wait.polled)
        /\ wait.attempts = Len(wait.polled)
        /\ wait.sleeps = Len(wait.polled) - 1
        /\ wait.elapsed >= wait.sleeps * wait.args.interval_seconds

\* 0, 0, 3 polled with the predicate value = 3: 3 returned after 3 polls and
\* 2 sleeps
C24_Witness ==
    /\ UntilCalled
    /\ wait.pc = "returned"
    /\ wait.args.predicate = "is3"
    /\ wait.polled = <<0, 0, 3>>
    /\ wait.result = IntVal(3)
    /\ wait.attempts = 3
    /\ wait.sleeps = 2

-----------------------------------------------------------------------------
\* until was called with valid arguments and a predicate that never holds
NeverHolds ==
    /\ UntilCalled
    /\ wait.args.predicate = "never"
    /\ _validate_wait_args(wait.args.timeout_seconds, wait.args.interval_seconds,
                           wait.args.initial_delay_seconds, wait.args.max_attempts) = "None"

\* the attempt cap is given and reached
CapReached == wait.args.max_attempts # None /\ wait.attempts >= wait.args.max_attempts.v

\* the time was up at the n-th reading of the clock
TimeUpAtCheck(n) == wait.checks[n] >= wait.args.timeout_seconds

\* the limits: with a predicate that never holds until never returns; it
\* polls no more than max_attempts times; it raises WaitTimeoutError exactly
\* when the attempt cap is reached after a poll or the clock read after a
\* poll shows timeout_seconds elapsed, and at no earlier or later poll; the
\* clock is read after every poll that did not reach the cap.
UntilRaisesAtFirstLimitReached ==
    NeverHolds =>
        /\ wait.pc # "returned"
        /\ wait.attempts = Len(wait.polled)
        /\ wait.args.max_attempts # None => wait.attempts <= wait.args.max_attempts.v
        /\ \A n \in DOMAIN wait.checks : TimeUpAtCheck(n) => n = Len(wait.checks)
        /\ Len(wait.checks) = IF CapReached THEN wait.attempts - 1 ELSE wait.attempts
        /\ wait.pc = "raised" <=>
              /\ wait.attempts >= 1
              /\ \/ CapReached
                 \/ TimeUpAtCheck(Len(wait.checks))
        /\ wait.pc = "raised" => wait.raised = "WaitTimeoutError"
        /\ wait.sleeps = IF wait.pc = "poll" THEN wait.attempts
                         ELSE IF wait.attempts = 0 THEN 0 ELSE wait.attempts - 1

\* termination: a call of until whose predicate never holds ends with
\* WaitTimeoutError, when its thread keeps running
UntilNeverWaitsIndefinitely ==
    (NeverHolds /\ ~Ended) ~> (NeverHolds /\ wait.pc = "raised"
                                  /\ wait.raised = "WaitTimeoutError")

\* C25: with a predicate that never holds, until always ends with
\* WaitTimeoutError and never waits indefinitely; it raises as soon as a
\* limit is reached: after exactly max_attempts polls when the cap is given
\* and reached first, else at the first reading of the clock that shows
\* timeout_seconds elapsed.
C25_UntilEndsAtFirstLimitReached ==
    /\ []UntilRaisesAtFirstLimitReached
    /\ UntilNeverWaitsIndefinitely

\* the cap of 3 attempts was reached before the time was up: 3 polls, the
\* clock read twice, below timeout_seconds both times
C25_Witness ==
    /\ NeverHolds
    /\ wait.pc = "raised"
    /\ wait.raised = "WaitTimeoutError"
    /\ wait.args.max_attempts = IntVal(3)
    /\ wait.attempts = 3
    /\ Len(wait.checks) = 2
    /\ ~TimeUpAtCheck(2)

\* the time was up first, at the second reading of the clock
TimeLimitReachedFirst ==
    /\ NeverHolds
    /\ wait.pc = "raised"
    /\ wait.args.max_attempts = IntVal(3)
    /\ wait.attempts = 2
    /\ TimeUpAtCheck(2)

-----------------------------------------------------------------------------
\* the turns of a session detail, none when it exposes no list of turns
TurnsOf(detail) ==
    IF detail.t = "dict" /\ detail.thread.t = "dict" /\ detail.thread.turns.t = "list"
    THEN detail.thread.turns.v ELSE <<>>

\* the places of the turn in the turns of a detail
PlacesOfTurn(detail, turn_id) ==
    {i \in DOMAIN TurnsOf(detail) :
        TurnsOf(detail)[i].t = "dict" /\ TurnsOf(detail)[i].id = turn_id}

\* the detail exposes a status for the turn: its first record of the turn
\* has a status that is a string and not blank
StatusExposed(detail, turn_id) ==
    /\ PlacesOfTurn(detail, turn_id) # {}
    /\ LET first == CHOOSE i \in PlacesOfTurn(detail, turn_id) :
                        \A j \in PlacesOfTurn(detail, turn_id) : i <= j
           status == TurnsOf(detail)[first].status
       IN  status.t = "str" /\ strip(status.v) # <<>>

\* the status exposed, as it is written in the detail
ExposedStatus(detail, turn_id) ==
    LET first == CHOOSE i \in PlacesOfTurn(detail, turn_id) :
                     \A j \in PlacesOfTurn(detail, turn_id) : i <= j
    IN  TurnsOf(detail)[first].status.v

\* the status exposed is terminal
TerminalExposed(detail, turn_id) ==
    /\ StatusExposed(detail, turn_id)
    /\ \E x \in _DEFAULT_TERMINAL_TURN_STATUSES :
          lower(strip(ExposedStatus(detail, turn_id))) = x

\* the places of the complete assistant entries of the turn in the transcript
ReplyPlaces(detail, turn_id) ==
    IF NoCompleteReply(detail, turn_id) THEN {}
    ELSE {n \in DOMAIN detail.transcript.v : IsCompleteReply(detail.transcript.v[n], turn_id)}

\* the text of the most recent of them
MostRecentReply(detail, turn_id) ==
    LET latest == CHOOSE n \in ReplyPlaces(detail, turn_id) :
                      \A m \in ReplyPlaces(detail, turn_id) : m <= n
    IN  StrVal(strip(detail.transcript.v[latest].content.v))

\* snapshot n polled by assistant_reply shows a terminal turn without reply
TerminalWithoutReplyAt(n) ==
    /\ TerminalExposed(wait.polled[n], wait.args.turn_id)
    /\ NoCompleteReply(wait.polled[n], wait.args.turn_id)

\* C26: assistant_reply raises WaitTimeoutError at the poll that shows the
\* turn terminal and without a complete assistant entry: that poll is its
\* last, no sleep follows it, and when it is the first poll there was one
\* fetch of the session detail and no sleep at all, whatever the timeout.
C26_TerminalWithoutReplyFailsAtThatPoll ==
    AssistantReplyCalled =>
        \A n \in DOMAIN wait.polled :
            TerminalWithoutReplyAt(n) =>
                /\ n = Len(wait.polled)
                /\ wait.pc = "raised"
                /\ wait.raised = "WaitTimeoutError_without_reply"
                /\ wait.attempts = n
                /\ wait.sleeps = n - 1
                /\ wait.result = None

\* the first snapshot showed the turn terminal without reply and the call
\* raised before any time had passed, with a timeout of 2 ticks
C26_Witness ==
    /\ AssistantReplyCalled
    /\ wait.pc = "raised"
    /\ wait.polled # <<>>
    /\ TerminalWithoutReplyAt(1)
    /\ wait.attempts = 1
    /\ wait.sleeps = 0
    /\ wait.elapsed = 0
    /\ wait.args.timeout_seconds = 2

-----------------------------------------------------------------------------
\* the snapshot lets assistant_reply return
Ready(detail, turn_id) ==
    /\ ReplyPlaces(detail, turn_id) # {}
    /\ StatusExposed(detail, turn_id) => TerminalExposed(detail, turn_id)

\* C27: assistant_reply returns only on a snapshot that holds a complete
\* assistant entry of the turn and exposes either no status or a terminal
\* one; that snapshot is the last it polled, none before it was such a
\* snapshot, and the reply returned is the text of the most recent complete
\* assistant entry of the turn in it; a snapshot with a status exposed and
\* not terminal never ends the wait by itself, reply or not: the call sleeps
\* and polls again until a limit is reached.
C27_ReplyReturnedOnlyWhenTurnIsDone ==
    AssistantReplyCalled =>
        /\ \A n \in DOMAIN wait.polled :
              Ready(wait.polled[n], wait.args.turn_id) <=>
                  (n = Len(wait.polled) /\ wait.pc = "returned")
        /\ wait.pc = "returned" =>
              /\ wait.polled # <<>>
              /\ wait.result.t = "reply"
              /\ wait.result.detail = wait.polled[Len(wait.polled)]
              /\ wait.result.assistant_reply =
                     MostRecentReply(wait.polled[Len(wait.polled)], wait.args.turn_id)
        /\ \A n \in DOMAIN wait.polled :
              (/\ StatusExposed(wait.polled[n], wait.args.turn_id)
               /\ ~TerminalExposed(wait.polled[n], wait.args.turn_id)) =>
                  \/ n < Len(wait.polled)
                  \/ wait.pc \in {"sleep", "poll"}
                  \/ wait.pc = "raised" /\ wait.raised = "WaitTimeoutError"
                                        /\ wait.checks[n] >= wait.args.timeout_seconds

\* the first snapshot held a complete reply while the turn was running; the
\* call slept and returned the newest reply of the second snapshot, where
\* the turn was terminal
C27_Witness ==
    /\ AssistantReplyCalled
    /\ wait.pc = "returned"
    /\ Len(wait.polled) = 2
    /\ ReplyPlaces(wait.polled[1], wait.args.turn_id) # {}
    /\ ~TerminalExposed(wait.polled[1], wait.args.turn_id)
    /\ TerminalExposed(wait.polled[2], wait.args.turn_id)
    /\ wait.result.assistant_reply = Word("new")
    /\ wait.sleeps = 1

-----------------------------------------------------------------------------
\* the two registries are in the same state
SameRegistry ==
    /\ twin.registry.skills = registry.skills
    /\ twin.registry.dispatch_mode = registry.dispatch_mode
    /\ twin.registry.handled_request_ids = registry.handled_request_ids

BothUntilReturned ==
    /\ wait.pc = "returned"
    /\ twin.wait.pc = "returned"
    /\ twin.wait.polled = <<0, 3>>
    /\ twin.wait.result = IntVal(3)

\* both until calls reached the attempt cap at the second poll
BothUntilRaised ==
    /\ wait.pc = "raised"
    /\ twin.wait.raised = "WaitTimeoutError"
    /\ twin.wait.attempts = 2

-----------------------------------------------------------------------------
\* the task was cancelled and run_forever let the CancelledError through
CancellationPropagated ==
    stream.delivered => stream.pc = "cancelled" /\ stream.raised = "CancelledError"

\* a step that starts a connection attempt
StartsConnecting == stream'.pc = "connect" /\ stream.pc # "connect"

\* a step that starts a receive
StartsReceiving == stream'.pc = "recv" /\ stream.pc # "recv"

\* C29: run_forever lets a task cancellation through to its caller and
\* does not reconnect after it; a connection attempt starts only from the
\* head of the loop with stop_event found not set, a receive starts only in
\* an iteration whose head found stop_event not set; no connection is opened
\* while stop_event is set, and once it is set run_forever returns (or is
\* cancelled), with the connection closed.
C29_CancelPropagatesAndStopEndsTheStream ==
    /\ []CancellationPropagated
    /\ [](stream.pc \in {"returned", "cancelled"} => ~stream.open)
    /\ [](stream.pc = "returned" => stream.stop_event = "set")
    /\ [][StartsConnecting => (stream.pc = "top" /\ stream.stop_event # "set")]_vars
    /\ [][StartsReceiving => (stream'.checked /\ stream.pc \in {"conn_top", "ping"})]_vars
    /\ [][(stream.pc = "conn_top" /\ stream.stop_event = "set") => stream'.pc = "close"]_vars
    /\ (stream.pc # "idle" /\ stream.stop_event = "set")
           ~> (stream.pc \in {"returned", "cancelled"})

\* the task was cancelled after a connection had failed, with stop_event
\* not set: run_forever raised CancelledError and made no further attempt
C29_Witness ==
    /\ stream.pc = "cancelled"
    /\ stream.delivered
    /\ stream.reconnect_count >= 1
    /\ stream.stop_event = "clear"
    /\ ~stream.open

\* stop_event was set during a receive and run_forever returned
StreamStopped ==
    /\ stream.pc = "returned"
    /\ stream.stop_event = "set"
    /\ ~stream.delivered

-----------------------------------------------------------------------------
\* the names of the properties a schema declares
DeclaredNames(schema) ==
    IF schema.properties.t = "dict" THEN DOMAIN schema.properties.items ELSE {}

\* the parameters the handler's documentation describes: name and
\* description not blank
DescribedNames(handler) ==
    IF handler.doc = None THEN {}
    ELSE {strip(handler.doc.params[i].arg_name.v) :
            i \in {j \in DOMAIN handler.doc.params :
                     /\ handler.doc.params[j].arg_name.t = "str"
                     /\ strip(handler.doc.params[j].arg_name.v) # <<>>
                     /\ handler.doc.params[j].description.t = "str"
                     /\ strip(handler.doc.params[j].description.v) # <<>>}}

\* C30: a skill registered with an explicit input schema (a dict) stores a
\* schema that declares exactly the property names of the supplied one,
\* for every handler and documentation comment; a "properties" value that
\* is missing or no dict is stored as supplied, and so is a property
\* schema that is no dict.
C30_ExplicitSchemaGainsNoProperty ==
    (skill.pc = "registered" /\ skill.input_schema.t = "dict") =>
        /\ skill.stored.t = "dict"
        /\ DeclaredNames(skill.stored) = DeclaredNames(skill.input_schema)
        /\ skill.stored.properties.t = skill.input_schema.properties.t
        /\ skill.input_schema.properties.t # "dict" =>
               skill.stored.properties = skill.input_schema.properties
        /\ \A name \in DeclaredNames(skill.input_schema) :
               skill.input_schema.properties.items[name].t # "dict" =>
                   skill.stored.properties.items[name] =
                       skill.input_schema.properties.items[name]

\* the explicit schema declares a alone, the documentation describes a and
\* b: the stored schema declares a alone, and a carries its description
C30_Witness ==
    /\ skill.pc = "registered"
    /\ skill.input_schema.t = "dict"
    /\ DeclaredNames(skill.input_schema) = {<<"a">>}
    /\ skill.input_schema.properties.items[<<"a">>] = PropertySchema(Absent)
    /\ DescribedNames(skill.handler) = PropertyNames
    /\ DeclaredNames(skill.stored) = {<<"a">>}
    /\ skill.stored.properties.items[<<"a">>] = PropertySchema(StrVal(<<"first">>))

\* without an explicit schema the described parameter b, which the
\* signature does not have, is added to the inferred schema
InferredSchemaGainsDescribedProperty ==
    /\ skill.pc = "registered"
    /\ skill.input_schema = None
    /\ skill.handler.signature = "ok"
    /\ skill.handler.parameters = {<<"a">>}
    /\ DeclaredNames(skill.stored) = PropertyNames

-----------------------------------------------------------------------------
(* C31 *)

\* max(1, max_submit_attempts)
AttemptLimit(max_submit_attempts) ==
    IF max_submit_attempts > 1 THEN max_submit_attempts ELSE 1

\* how an attempt ended when it is followed by another one
RetriedAnswers == {Word("exception"), Word("malformed"), Word("error")}

\* responses with a status other than ok, conflict/in_flight, not_found, error
OtherStatusResponses ==
    {Dict(Word("conflict"), Word("stale")), Dict(Word("conflict"), None),
     Dict(Word("denied"), None), Dict(StrVal(<<" ", "OK">>), None),
     Dict(Word("rejected"), Word("in_flight"))}

\* C31: one dispatch makes at least one and at most max(1,
\* max_submit_attempts) tool_calls.respond calls, 3 by default; an attempt
\* is followed by another one only if it ended in a transport exception, a
\* malformed response or status "error", so the first attempt classified
\* accepted or non-retryable is the last; an attempt that ended in one of
\* the three is the last only at the limit; a response with any other
\* status is classified not accepted and not retryable.
C31_SubmitRetriesAreBoundedAndOnlyAfterRetryable ==
    /\ AttemptLimit(_DEFAULT_RESPONSE_SUBMIT_ATTEMPTS) = 3
    /\ \A response \in OtherStatusResponses :
          LET submission == _classify_tool_call_response(response)
          IN  ~submission.accepted /\ ~submission.retryable
    /\ \A i \in DOMAIN last.log :
          LET e == last.log[i]
          IN  e.submitted =>
                /\ e.calls = Len(e.answers)
                /\ Len(CallsOf(last, i)) = e.calls
                /\ e.calls >= 1
                /\ e.calls <= AttemptLimit(e.max_submit_attempts)
                /\ \A k \in DOMAIN e.answers :
                      /\ k < Len(e.answers) => e.answers[k] \in RetriedAnswers
                      /\ (e.answers[k] \in RetriedAnswers /\ k = Len(e.answers))
                            => k = AttemptLimit(e.max_submit_attempts)
                /\ e.accepted => e.answers[Len(e.answers)] \notin RetriedAnswers
                /\ (e.response \in OtherStatusResponses /\ i \in DOMAIN last.returned)
                      => /\ ~e.accepted
                         /\ ~last.returned[i].handled
                         /\ last.returned[i].submission_attempts = e.calls

\* with the default limit of 3, a transport exception is followed by a
\* second attempt, which is answered conflict/stale and is the last
C31_Witness ==
    /\ IsRespond(last)
    /\ Len(last.log) = 1
    /\ last.log[1].max_submit_attempts = _DEFAULT_RESPONSE_SUBMIT_ATTEMPTS
    /\ last.log[1].answers = <<Word("exception"), Word("conflict")>>
    /\ last.log[1].response = Dict(Word("conflict"), Word("stale"))
    /\ Len(last.calls) = 2
    /\ last.returned # <<>>
    /\ ~last.returned[1].handled

\* with max_submit_attempts = 0 one call is made, although it failed in
\* transport
OneAttemptAtLeast ==
    /\ IsRespond(last)
    /\ Len(last.log) = 1
    /\ last.log[1].max_submit_attempts = 0
    /\ last.log[1].answers = <<Word("exception")>>
    /\ Len(last.calls) = 1

-----------------------------------------------------------------------------
(* C32 *)

\* the i-th dispatched indication of operation l was submitted and its last
\* attempt raised a transport exception
ExhaustedByException(l, i) ==
    /\ l.log[i].submitted
    /\ l.log[i].answers[Len(l.log[i].answers)] = Word("exception")

\* C32: when the last allowed attempt raises a transport exception, the
\* attempts made equal the limit, respond_to_signal, respond_to_pending_call
\* and drain_pending_calls raise nothing, and the Dispatch is returned with
\* handled = false, submission_status "exception", submission_attempts =
\* the limit and the submit-failure text as error (send_and_handle returns
\* it unless the send, a later drain or the wait for the turn fails);
\* the dedup cache is left as it was, and a later delivery of the same
\* request id, in the same drain or in the next call, is submitted again.
C32_ExhaustedByExceptionIsReturnedAndNotRemembered ==
    /\ \A i \in DOMAIN last.log :
          ExhaustedByException(last, i) =>
             LET e == last.log[i]
             IN  /\ e.calls = AttemptLimit(e.max_submit_attempts)
                 /\ ~e.accepted
                 /\ last.op # "send_and_handle" => last.raised = "None"
                 /\ last.raised = "None" =>
                       /\ i \in DOMAIN last.returned
                       /\ ~last.returned[i].handled
                       /\ last.returned[i].submission_status = Word("exception")
                       /\ last.returned[i].submission_attempts
                             = AttemptLimit(e.max_submit_attempts)
                       /\ last.returned[i].error = Word("tool call response submit failed")
                 /\ IsRespond(last) =>
                       registry.handled_request_ids = last.before.handled_request_ids
                 /\ \A j \in DOMAIN last.log :
                       (j = i + 1 /\ last.log[j].request_id = e.request_id)
                          => /\ last.log[j].handled_len = e.handled_len
                             /\ ~last.log[j].duplicate
                             /\ last.log[j].submitted
                             /\ last.log[j].calls >= 1
    /\ (/\ IsRespond(prev) /\ IsRespond(last)
        /\ prev.request_id # None
        /\ ~prev.accepted /\ ~prev.duplicate
        /\ last.log # <<>>
        /\ last.log[1].request_id = prev.request_id)
          => /\ last.log[1].submitted
             /\ ~last.log[1].duplicate
             /\ last.calls # <<>>

\* a drain lists the same call twice: the submission of the first row is
\* given up after the last attempt raised, the second row is submitted
\* again and accepted
C32_Witness ==
    /\ last.op = "drain_pending_calls"
    /\ Len(last.log) = 2
    /\ ExhaustedByException(last, 1)
    /\ last.log[1].calls = 2
    /\ last.log[2].request_id = last.log[1].request_id
    /\ last.log[2].submitted
    /\ last.log[2].accepted
    /\ ~last.returned[1].handled
    /\ last.returned[1].submission_status = Word("exception")
    /\ Len(last.calls) = 3

\* a call that failed with three transport exceptions is followed by a call
\* with the same request id, which is submitted
ResubmittedInTheNextCall ==
    /\ IsRespond(prev) /\ IsRespond(last)
    /\ prev.request_id # None
    /\ ~prev.accepted /\ ~prev.duplicate
    /\ last.log # <<>>
    /\ last.log[1].request_id = prev.request_id
    /\ ExhaustedByException(last, 1)
    /\ Len(last.calls) = 3

-----------------------------------------------------------------------------
(* C33 *)

\* the request id the indication of a respond call carries
CarriedRequestId(l) ==
    IF l.op = "respond_to_signal" THEN l.arg.request_id ELSE l.arg.requestId

\* absent, or an empty or whitespace string
Unusable(request_id) ==
    \/ request_id = None
    \/ request_id.t = "str" /\ strip(request_id.v) = <<>>

\* the mode respond call l requires
ChannelMode(l) ==
    IF l.op = "respond_to_signal" THEN _DISPATCH_MODE_SIGNAL ELSE _DISPATCH_MODE_POLLING

\* C33: a tool-call indication without usable request id that passes the
\* mode check leaves the dispatch mode locked to its channel, runs the
\* handler when the tool is registered, makes no tool_calls.respond call,
\* and returns the Dispatch with submission_status "no_request_id",
\* submission_attempts 0 and handled as the local execution left it; the
\* dedup cache is unchanged.
C33_NoRequestIdRunsHandlerWithoutSubmission ==
    (/\ IsRespond(last)
     /\ last.log # <<>>
     /\ Unusable(CarriedRequestId(last)))
        => LET e == last.log[1]
               d == last.returned[1]
           IN  /\ last.raised = "None"
               /\ Len(last.log) = 1 /\ Len(last.returned) = 1
               /\ last.before.dispatch_mode \in {NoDispatchMode, ChannelMode(last)}
               /\ registry.dispatch_mode = ChannelMode(last)
               /\ e.matched <=> e.handler_result # "not_invoked"
               /\ ~e.submitted /\ ~e.duplicate /\ ~e.accepted
               /\ last.calls = <<>>
               /\ d.submission_status = Word("no_request_id")
               /\ d.submission_attempts = 0
               /\ d.submission_code = None
               /\ ~d.submission_idempotent
               /\ d.handled = e.local_handled
               /\ d.handled <=> (/\ e.matched
                                 /\ e.handler_result \in {"returns", "returns_failure_envelope"})
               /\ registry.handled_request_ids = last.before.handled_request_ids

\* a signal whose request id is a blank string, on a registry with unset
\* mode: the handler ran and returned, nothing was submitted
C33_Witness ==
    /\ last.op = "respond_to_signal"
    /\ last.log # <<>>
    /\ last.arg.request_id = StrVal(<<" ">>)
    /\ last.before.dispatch_mode = NoDispatchMode
    /\ registry.dispatch_mode = _DISPATCH_MODE_SIGNAL
    /\ last.log[1].handler_result = "returns"
    /\ last.returned[1].handled
    /\ last.returned[1].submission_status = Word("no_request_id")
    /\ last.calls = <<>>

-----------------------------------------------------------------------------
(* C34 *)

\* what dispatch has to call when every failing route is isolated: for the
\* routes from i on, the handler of every route whose matcher answers true,
\* and the error callback, when there is one, for every route whose matcher
\* or handler raises
RECURSIVE IsolatedCalls(_, _, _)
IsolatedCalls(routes, i, on_handler_error) ==
    IF i > Len(routes) THEN <<>>
    ELSE LET route == routes[i]
             failing == \/ route.matcher = "raises"
                        \/ route.matcher = "true" /\ route.handler = "raises"
         IN  (IF route.matcher = "true" THEN <<Called("handler", i)>> ELSE <<>>)
             \o (IF failing /\ on_handler_error # "None"
                 THEN <<Called("error", i)>> ELSE <<>>)
             \o IsolatedCalls(routes, i + 1, on_handler_error)

\* C34 as stated: when the matcher or the handler of a route raises, the
\* error callback is called with the error, every later route is still
\* evaluated and run in registration order, and an exception of the error
\* callback does not stop the dispatch: dispatch always returns, having made
\* exactly the calls of IsolatedCalls.
C34_FailingRouteIsIsolated ==
    router.pc \in {"returned", "raised"}
        => /\ router.pc = "returned"
           /\ router.seen = IsolatedCalls(router.routes, 1, router.on_handler_error)

\* the part of C34 the code has: as long as no matcher raises, a raising
\* handler and a raising error callback stop nothing
HandlerFailureIsIsolated ==
    (/\ router.pc \in {"returned", "raised"}
     /\ \A i \in DOMAIN router.routes : router.routes[i].matcher # "raises")
        => /\ router.pc = "returned"
           /\ router.seen = IsolatedCalls(router.routes, 1, router.on_handler_error)

\* the matcher of the first route raised: dispatch raised its error, the
\* error callback was not called and the second route, which matches, was
\* not run
MatcherFailureStopsDispatch ==
    /\ router.pc = "raised"
    /\ router.raised = "matcher error"
    /\ Len(router.routes) = 2
    /\ router.routes[1].matcher = "raises"
    /\ router.routes[2] = Route("true", "returns")
    /\ router.on_handler_error = "returns"
    /\ router.seen = <<>>

-----------------------------------------------------------------------------
(* C35 *)

\* the tasks that have called tool_calls.respond for request_id
RespondingTasks(request_id) ==
    {t \in TaskIds : [task |-> t, request_id |-> request_id] \in tasks.responded}

\* both tasks run the same coroutine on the session
SameCoroutine ==
    \A t, u \in TaskIds : tasks.task[t].op # "idle" /\ tasks.task[u].op # "idle"
                              => tasks.task[t].op = tasks.task[u].op

\* C35 as stated: when two tasks of the asynchronous session process
\* deliveries with the same request id (two drain_pending_calls or two
\* respond_to_signal), at most one of them calls tool_calls.respond for that
\* id, under every interleaving of the suspension points.
C35_AtMostOneTaskRespondsForAnId ==
    SameCoroutine
        => \A request_id \in TaskRequestIds :
               Cardinality(RespondingTasks(request_id)) <= 1

\* two respond_to_signal tasks are suspended in tool_calls.respond for the
\* same request id at the same time: the second passed the dedup check
\* because the first remembers the id only after its call has been answered
TwoRespondCallsInFlight ==
    /\ \A t \in TaskIds : /\ tasks.task[t].op = "respond_to_signal"
                          /\ tasks.task[t].pc = "respond"
                          /\ tasks.task[t].request_id = "r1"
                          /\ tasks.task[t].attempt = 1
    /\ tasks.handled_request_ids = {}
    /\ RespondingTasks("r1") = TaskIds

-----------------------------------------------------------------------------
(* C36 *)

\* the request ids task t has called tool_calls.respond for
RespondedBy(t) == {x \in tasks.responded : x.task = t}

\* the handler invocations of task t, by channel
InvokedBy(t) == {x \in tasks.invoked : x.task = t}

\* task t has not come to a mode check, or has raised at its first one
StoppedAtTheModeCheck(t) ==
    LET task == tasks.task[t]
    IN  /\ InvokedBy(t) = {}
        /\ RespondedBy(t) = {}
        /\ \/ task.pc \in {"idle", "listing"}
           \/ task.pc = "raised" /\ task.raised = "dispatch_mode_conflict"
           \/ task.pc = "returned" /\ task.submission_status = None

\* C36: while respond_to_signal and drain_pending_calls tasks run on one
\* asynchronous session and the mode is not reset, every handler that is
\* invoked belongs to one channel, the one the registry is locked to, and a
\* task of the other channel raises the mode conflict before it invokes a
\* handler or submits anything.
C36_OneChannelWinsUnderConcurrency ==
    ~tasks.reset
        => /\ \A x \in tasks.invoked : x.mode = tasks.dispatch_mode
           /\ \A t \in TaskIds :
                  (/\ tasks.task[t].op # "idle"
                   /\ tasks.dispatch_mode # NoDispatchMode
                   /\ TaskMode(tasks.task[t].op) # tasks.dispatch_mode)
                      => StoppedAtTheModeCheck(t)

\* a drain task whose listing came back with a row raised the conflict
\* while a respond_to_signal task was suspended in its handler
C36_Witness ==
    /\ ~tasks.reset
    /\ tasks.dispatch_mode = _DISPATCH_MODE_SIGNAL
    /\ tasks.task["a"].op = "respond_to_signal"
    /\ tasks.task["a"].pc = "handler"
    /\ tasks.task["b"].op = "drain_pending_calls"
    /\ tasks.task["b"].rows # <<>>
    /\ tasks.task["b"].pc = "raised"
    /\ tasks.task["b"].raised = "dispatch_mode_conflict"
    /\ InvokedBy("b") = {}
    /\ InvokedBy("a") # {}

\* the mode is checked and set in one step: no state has a handler invoked
\* on a registry whose mode is unset
ModeSetWhenAHandlerRuns ==
    ~tasks.reset /\ tasks.invoked # {} => tasks.dispatch_mode # NoDispatchMode

-----------------------------------------------------------------------------
(* C37 *)

\* the handler was invoked for log entry e
Invoked(e) == e.handler_result # "not_invoked"

\* C37: the dedup cache is consulted only after the handler has run.  Every
\* delivery that reaches dispatch_tool_call with a registered tool invokes
\* the handler, also when its request id is already in the cache; the
\* Dispatch of such a local duplicate is not submitted and carries the
\* handled flag the execution just made left.
C37_DuplicateRunsTheHandlerAgain ==
    /\ IsDelivery(last)
           => \A i \in DOMAIN last.log :
                  LET e == last.log[i]
                  IN  /\ e.matched <=> Invoked(e)
                      /\ e.duplicate => ~e.submitted /\ e.calls = 0
    /\ (IsRespond(last) \/ last.op = "drain_pending_calls") /\ last.raised = "None"
           => /\ Len(last.returned) = Len(last.log)
              /\ \A i \in DOMAIN last.log :
                     LET e == last.log[i]
                         d == last.returned[i]
                     IN  e.duplicate
                             => /\ d.submission_status = Word("local_duplicate")
                                /\ d.submission_idempotent
                                /\ d.handled <=> (/\ e.matched
                                                  /\ e.handler_result \in
                                                         {"returns",
                                                          "returns_failure_envelope"})

\* the request id of the call before, which was accepted, is delivered
\* again: the handler ran a second time and returned, the Dispatch says
\* handled, and nothing was submitted
C37_Witness ==
    /\ IsRespond(prev) /\ prev.accepted
    /\ IsRespond(last) /\ last.log # <<>>
    /\ last.log[1].request_id = prev.request_id
    /\ last.log[1].duplicate
    /\ last.log[1].handler_result = "returns"
    /\ last.returned[1].handled
    /\ last.returned[1].submission_status = Word("local_duplicate")
    /\ last.calls = <<>>

\* the second execution raised: the duplicate's Dispatch says not handled
DuplicateReflectsTheFailedRerun ==
    /\ IsRespond(last) /\ last.log # <<>>
    /\ last.log[1].duplicate
    /\ last.log[1].handler_result = "raises"
    /\ ~last.returned[1].handled
    /\ last.returned[1].submission_status = Word("local_duplicate")

-----------------------------------------------------------------------------
(* C38 *)

\* send_and_handle returned a result
ResultReturned == SendAndHandleCalled /\ last.raised = "None"

\* the status read that ended the loop
LoopEndingStatus == last.polls[Len(last.polls)].status

\* C38 as stated: whenever send_and_handle returns a result, the status
\* field of the result is, case aside, one of the terminal statuses that
\* ended the loop.
C38_ResultStatusIsTerminal ==
    ResultReturned => IsTerminalRead(last.value.status, last.arg)

\* C38, amended: whenever send_and_handle returns a result, the loop was left
\* on a status read that is one of the terminal statuses, and the status
\* field of the result is not that read but the one made after the loop,
\* once the session detail has been fetched; it is a terminal status exactly
\* when that later read is one.
C38_ResultStatusIsTheReadAfterTheLoop ==
    ResultReturned
        => /\ Len(Steps) >= 3
           /\ SubSeq(Steps, Len(Steps) - 2, Len(Steps)) = <<"break", "get", "turn_status">>
           /\ last.polls # <<>>
           /\ IsTerminalRead(LoopEndingStatus, last.arg)
           /\ last.value.status = last.final_status
           /\ IsTerminalRead(last.value.status, last.arg)
                  <=> IsTerminalRead(last.final_status, last.arg)

\* the loop was left on "COMPLETED", the read after the loop found no status
\* for the turn, and the result says so
C38_Witness ==
    /\ ResultReturned
    /\ last.arg.terminal_statuses = None
    /\ LoopEndingStatus = Word("COMPLETED")
    /\ last.final_status = None
    /\ last.value.status = None

\* the turn kept its status between the two reads
StatusUnchangedIsTerminal ==
    /\ ResultReturned
    /\ LoopEndingStatus = Word("COMPLETED")
    /\ last.value.status = Word("COMPLETED")

-----------------------------------------------------------------------------
(* C39 *)

\* no message was sent, no listing fetched, no status read
NoRemoteCall(l) ==
    /\ \A n \in DOMAIN l.notes : l.notes[n] \notin {"send", "drain", "get", "turn_status"}
    /\ l.calls = <<>>
    /\ l.log = <<>>

\* send_and_handle was called on a registry whose mode is unset
SendOnUnsetRegistry ==
    /\ SendAndHandleCalled
    /\ last.before.dispatch_mode = NoDispatchMode

\* the errors of the two argument checks
ArgumentErrors == {"timeout_seconds_not_positive", "interval_seconds_not_positive"}

\* the call ended in one of the failures that come after the mode was set
FailedAfterTheModeCheck ==
    /\ SendOnUnsetRegistry
    /\ last.raised \notin ArgumentErrors \cup {"None"}

\* a tool-call indication of this session was given to respond_to_signal
SignalDispatchAttempted ==
    /\ last.op = "respond_to_signal"
    /\ last.notes \notin {<<"session_mismatch">>, <<"not_tool_call">>}

\* C39: send_and_handle on a registry with unset mode leaves the mode at
\* "polling" however it ends (unusable terminal statuses, failed send,
\* missing turnId, failed drain, timeout, missing reply, result), whether or
\* not a message was sent or a call drained; only when timeout_seconds or
\* interval_seconds is not positive does it fail with the mode still unset
\* and the registry untouched.  A signal dispatch that follows on the
\* registry still locked to polling raises the mode conflict and runs
\* nothing.
C39_SendLocksPollingAlsoWhenItFails ==
    /\ SendOnUnsetRegistry
           => /\ last.raised \in ArgumentErrors
                     <=> (last.arg.timeout_seconds <= 0 \/ last.arg.interval_seconds <= 0)
              /\ IF last.raised \in ArgumentErrors
                 THEN registry = last.before /\ NothingSent(last)
                 ELSE registry.dispatch_mode = _DISPATCH_MODE_POLLING
              /\ (/\ last.arg.timeout_seconds > 0 /\ last.arg.interval_seconds > 0
                  /\ _normalize_statuses(last.arg.terminal_statuses).raised # "None")
                     => /\ last.raised = _normalize_statuses(last.arg.terminal_statuses).raised
                        /\ NoRemoteCall(last)
    /\ (/\ SignalDispatchAttempted
        /\ prev.op = "send_and_handle"
        /\ last.before.dispatch_mode = _DISPATCH_MODE_POLLING)
           => /\ last.raised = "dispatch_mode_conflict"
              /\ NothingDispatched(last)
              /\ last.calls = <<>>
              /\ registry = last.before

\* the terminal statuses were unusable: nothing was sent, and the registry,
\* unset before, is locked to polling
C39_Witness ==
    /\ FailedAfterTheModeCheck
    /\ last.raised = "terminal_statuses_empty"
    /\ NoRemoteCall(last)
    /\ registry.dispatch_mode = _DISPATCH_MODE_POLLING

\* the send failed, the timeout struck
SendFailureLeavesPolling ==
    /\ FailedAfterTheModeCheck
    /\ last.raised = "send_failed"
    /\ registry.dispatch_mode = _DISPATCH_MODE_POLLING

TimeoutLeavesPolling ==
    /\ FailedAfterTheModeCheck
    /\ last.raised = "WaitTimeoutError"
    /\ last.returned = <<>>
    /\ registry.dispatch_mode = _DISPATCH_MODE_POLLING

\* the signal dispatch after a send_and_handle was rejected
SignalRejectedAfterSend ==
    /\ SignalDispatchAttempted
    /\ prev.op = "send_and_handle"
    /\ last.raised = "dispatch_mode_conflict"

-----------------------------------------------------------------------------
(* C40 *)

\* close_session returned
SessionClosed == facade.last.op = "close_session" /\ facade.last.raised = "None"

\* the remote delete was asked for and failed, and the failure was ignored
DeleteFailureIgnored ==
    /\ SessionClosed
    /\ facade.last.value = [delete_session |-> TRUE, deleted |-> "raises"]

\* a registry as facade.session makes it for an id it does not know
FreshLockedRegistry ==
    [skills |-> {}, handled_request_ids |-> [ids |-> {}, others |-> 0],
     dispatch_mode |-> NoDispatchMode, catalog_locked |-> TRUE]

\* the registry of a handle retained from before a close has no skill, and
\* the handle answers a tool call as one for an unregistered tool
RetainedHandleHasNoSkill ==
    /\ facade.retained # Absent => facade.retained.registry.skills = {}
    /\ (facade.last.target = "retained" /\ facade.last.op = "dispatch_tool_call")
           => /\ ~facade.last.value.handled
              /\ facade.last.value.error = Word("no remote skill registered")

\* C40: when close_session returns, also after a remote delete that failed
\* and was ignored, the session id is no longer in the facade's map and the
\* registry it had there has no skills, so that a handle retained from before
\* the close treats every tool as unregistered; facade.session(id) called
\* next returns a fresh locked registry: no skills, unset dispatch_mode,
\* empty dedup cache.
C40_CloseSessionClearsAndForgets ==
    /\ [](SessionClosed => facade.last.session_id \notin DOMAIN facade.registries)
    /\ []RetainedHandleHasNoSkill
    /\ [][(/\ SessionClosed
           /\ facade'.last.op = "session"
           /\ facade'.last.session_id = facade.last.session_id)
              => facade'.registries[facade.last.session_id] = FreshLockedRegistry]_vars

\* a session that had a skill and had answered a signal was closed, the
\* remote delete failed and was ignored: the id is gone from the map, the
\* retained registry still has its mode and its cache, and no skill
C40_Witness ==
    /\ DeleteFailureIgnored
    /\ facade.last.session_id \notin DOMAIN facade.registries
    /\ facade.retained # Absent
    /\ facade.retained.session_id = facade.last.session_id
    /\ facade.retained.registry.dispatch_mode = _DISPATCH_MODE_SIGNAL
    /\ facade.retained.registry.handled_request_ids.ids # {}
    /\ facade.retained.registry.skills = {}

\* the retained handle was given a call for the tool the session was
\* created with
RetainedHandleFindsNoTool ==
    /\ facade.last.target = "retained"
    /\ facade.last.op = "dispatch_tool_call"
    /\ ~facade.last.value.handled

\* facade.session(id) after the close: the registry in the map is fresh,
\* the retained one is another object
FreshRegistryAfterClose ==
    /\ facade.last.op = "session"
    /\ facade.retained # Absent
    /\ facade.retained.session_id = facade.last.session_id
    /\ facade.retained.registry.dispatch_mode = _DISPATCH_MODE_SIGNAL
    /\ facade.registries[facade.last.session_id] = FreshLockedRegistry

====
